---- MODULE Spec2Model ----
(***************************************************************************)
(* A model of SkImage_Lazy (src/image/SkImage_Lazy.cpp): lazy images that  *)
(* share one SkImageGenerator behind a mutex, the raster path              *)
(* (getROPixels), the YUV planar path (getPlanes,                          *)
(* textureProxyViewFromPlanes), the texture cascade (lockTextureProxyView) *)
(* and the identity model (Validator, onMakeColorTypeAndColorSpace).       *)
(***************************************************************************)
EXTENDS Integers, Sequences, FiniteSets, TLC

(***************************************************************************)
(* Bounds of the model.                                                    *)
(***************************************************************************)
NumThreads == 2
NumContexts == 1
NumGens == 2
MaxImages == 3
\* how often one context may key a proxy for one image
MaxInstalls == 2
\* The largest fWidthBytes and height of a YUV plane.
MaxRowBytes == 2
MaxHeight == 2

(***************************************************************************)
(* Value domains.                                                          *)
(***************************************************************************)
ColorTypes == {"RGBA8", "BGRA8"}
ColorSpaces == {"sRGB", "P3"}
\* a null sk_sp<SkColorSpace> / a null const SkColorType*
NoCS == "nullCS"
NoCT == "nullCT"
\* a null sk_sp<SharedGenerator>
NullShared == 0
\* a null sk_sp<SkImage>
NullImage == 0

Gens == 1..NumGens

Threads == 1..NumThreads

VARIABLES
    gens,        \* the generators: what was handed to MakeFromGenerator
    images,      \* the SkImage_Lazy objects made so far, in creation order
    nextID,      \* the SkNextID::ImageID() counter
    last,        \* the last factory call and what it returned
    mutex,       \* SharedGenerator::fMutex: the thread holding it, or 0
    recolorMutex, \* per image, fOnMakeColorTypeAndSpaceMutex: its holder, or 0
    listMutex,   \* per image, the mutex of fUniqueIDListeners: its holder, or 0
    th,          \* each thread's position in the accessor it is running
    bitmapCache, \* SkBitmapCache: the committed records
    yuvCache,    \* SkYUVPlanesCache: the added planes
    texCache,    \* per context, the proxies the proxy provider has keyed
    listeners,   \* per image, fUniqueIDListeners
    notified,    \* the images that ran notifyAddedToRasterCache
    disableYUV,  \* the contexts' option fDisableGpuYUVConversion
    pre,         \* history: the caches as they were when the running call began,
                 \* and how the calls before it ended
    series,      \* history: per bitmap descriptor, the successful getROPixels
                 \* calls since one with hint Allow, with no eviction between
    keyed,       \* history: <<context, image>> a Draw call returned a view for,
                 \* with no eviction of its key since
    evicted      \* history: <<context, image>> whose keyed proxy was evicted

recolorVars == <<gens, images, nextID, last>>
cacheVars == <<bitmapCache, yuvCache, texCache, listeners, notified>>
lockVars == <<recolorMutex, listMutex>>
accVars == <<mutex, recolorMutex, listMutex, th, bitmapCache, yuvCache, texCache,
             listeners, notified>>
vars == <<gens, images, nextID, last, mutex, recolorMutex, listMutex, th,
          bitmapCache, yuvCache, texCache, listeners, notified, disableYUV, pre,
          series, keyed, evicted>>
histVars == <<pre, series, keyed, evicted>>

(***************************************************************************)
(* SkColorSpace::Equals: two nulls are equal, a null equals nothing else.  *)
(***************************************************************************)
CSEquals(a, b) == a = b

\* SkImageGenerator::uniqueID(): a constant of the generator, drawn from the
\* same counter as the image ids when the generator was constructed.
GenUniqueID(g) == g

\* SharedGenerator::Make: null for a null generator.
SharedGeneratorMake(g) == IF gens[g].state = "null" THEN NullShared ELSE g

InvalidValidator ==
    [valid |-> FALSE, gen |-> NullShared, ct |-> NoCT, cs |-> NoCS,
     uid |-> 0, fresh |-> FALSE]

\* The Validator of a bug that keeps the generator's id under an override.
ValidatorKeepsID(shared, colorType, colorSpace, nid) ==
    IF shared = NullShared THEN InvalidValidator
    ELSE IF gens[shared].state = "empty" THEN InvalidValidator
    ELSE LET g == gens[shared]
             ct == IF colorType # NoCT /\ colorType = g.ct THEN NoCT ELSE colorType
         IN  [valid |-> TRUE, gen |-> shared,
              ct |-> IF ct # NoCT THEN ct ELSE g.ct,
              cs |-> IF colorSpace # NoCS THEN colorSpace ELSE g.cs,
              uid |-> GenUniqueID(shared), fresh |-> FALSE]

\* A Validator that takes an absent color space for "no color space".
ValidatorStripsColorSpace(shared, colorType, colorSpace, nid) ==
    IF shared = NullShared THEN InvalidValidator
    ELSE IF gens[shared].state = "empty" THEN InvalidValidator
    ELSE LET g == gens[shared]
             ct == IF colorType # NoCT /\ colorType = g.ct THEN NoCT ELSE colorType
         IN  IF ct # NoCT \/ colorSpace # NoCS
             THEN [valid |-> TRUE, gen |-> shared,
                   ct |-> IF ct # NoCT THEN ct ELSE g.ct,
                   cs |-> colorSpace,
                   uid |-> nid, fresh |-> TRUE]
             ELSE [valid |-> TRUE, gen |-> shared, ct |-> g.ct, cs |-> g.cs,
                   uid |-> GenUniqueID(shared), fresh |-> FALSE]

(***************************************************************************)
(* SkImage_Lazy::Validator::Validator.  nid is the value SkNextID::ImageID *)
(* would return; fresh says whether it was taken.                          *)
(***************************************************************************)
Validator(shared, colorType, colorSpace, nid) ==
    IF shared = NullShared THEN InvalidValidator
    ELSE IF gens[shared].state = "empty" THEN InvalidValidator
    ELSE LET g == gens[shared]
             ct == IF colorType # NoCT /\ colorType = g.ct THEN NoCT ELSE colorType
         IN  IF ct # NoCT \/ colorSpace # NoCS
             THEN [valid |-> TRUE, gen |-> shared,
                   ct |-> IF ct # NoCT THEN ct ELSE g.ct,
                   cs |-> IF colorSpace # NoCS THEN colorSpace ELSE g.cs,
                   uid |-> nid, fresh |-> TRUE]
             ELSE [valid |-> TRUE, gen |-> shared, ct |-> g.ct, cs |-> g.cs,
                   uid |-> GenUniqueID(shared), fresh |-> FALSE]

\* SkImage_Lazy::SkImage_Lazy(Validator*): the image takes the validator's
\* generator, info and id; its recolor memo starts empty.
NewLazyImage(v) ==
    [gen |-> v.gen, uid |-> v.uid, ct |-> v.ct, cs |-> v.cs, memo |-> NullImage]

NoCall ==
    [op |-> "none", src |-> 0, ct |-> NoCT, cs |-> NoCS, res |-> NullImage,
     fresh |-> FALSE, hit |-> FALSE]

(***************************************************************************)
(* SkImage::MakeFromGenerator.  The generator is moved into the call, so   *)
(* each generator is handed over once.                                     *)
(***************************************************************************)
MakeFromGenerator(g) ==
    /\ ~gens[g].made
    /\ Len(images) < MaxImages
    /\ LET v == Validator(SharedGeneratorMake(g), NoCT, NoCS, nextID)
       IN  /\ gens' = [gens EXCEPT ![g].made = TRUE]
           /\ images' = IF v.valid THEN Append(images, NewLazyImage(v)) ELSE images
           /\ nextID' = IF v.fresh THEN nextID + 1 ELSE nextID
           /\ last' = [op |-> "fromGenerator", src |-> g, ct |-> NoCT, cs |-> NoCS,
                       res |-> IF v.valid THEN Len(images) + 1 ELSE NullImage,
                       fresh |-> v.fresh, hit |-> FALSE]

\* The memo test of onMakeColorTypeAndColorSpace (lines 216-218).
MemoMatches(i, targetCT, targetCS) ==
    /\ images[i].memo # NullImage
    /\ targetCT = images[images[i].memo].ct
    /\ CSEquals(targetCS, images[images[i].memo].cs)

(***************************************************************************)
(* SkImage_Lazy::onMakeColorTypeAndColorSpace, the whole body under        *)
(* fOnMakeColorTypeAndSpaceMutex.                                          *)
(***************************************************************************)
MakeColorTypeAndColorSpace(i, targetCT, targetCS) ==
    /\ i \in 1..Len(images)
    /\ IF MemoMatches(i, targetCT, targetCS)
       THEN /\ last' = [op |-> "recolor", src |-> i, ct |-> targetCT, cs |-> targetCS,
                        res |-> images[i].memo, fresh |-> FALSE, hit |-> TRUE]
            /\ UNCHANGED <<gens, images, nextID>>
       ELSE /\ Len(images) < MaxImages
            /\ LET v == Validator(images[i].gen, targetCT, targetCS, nextID)
                   n == Len(images) + 1
               IN  /\ images' = IF v.valid
                                THEN Append([images EXCEPT ![i].memo = n], NewLazyImage(v))
                                ELSE images
                   /\ nextID' = IF v.fresh THEN nextID + 1 ELSE nextID
                   /\ last' = [op |-> "recolor", src |-> i, ct |-> targetCT,
                               cs |-> targetCS,
                               res |-> IF v.valid THEN n ELSE NullImage,
                               fresh |-> v.fresh, hit |-> FALSE]
            /\ UNCHANGED gens

(***************************************************************************)
(* The accessors.  A thread runs one accessor at a time; th[t].pc is its   *)
(* position in it.  Each thread draws with its own GrRecordingContext,     *)
(* whose id is the thread's.                                               *)
(***************************************************************************)
NoThread == 0
NoKey == 0
NoBitmap == [pixels |-> <<>>, immutable |-> FALSE, owner |-> "none"]
NoView == [proxy |-> "null", key |-> NoKey, mipped |-> FALSE]
NoPlanes == <<>>
\* A null sk_sp<SkCachedData>.  Of a buffer: its bytes, where it came from, its
\* reference count as far as this call and the cache go, and who holds these
\* references: the caller's sk_sp, the plane bitmaps alive, the planes cache.
NoData == [size |-> 0, owner |-> "none", rc |-> 0, sp |-> 0, bm |-> 0, cache |-> 0]

\* A thread between calls.
IdleThread ==
    [pc |-> "idle", op |-> "none", img |-> NullImage, hint |-> "none",
     policy |-> "none", mip |-> FALSE, ct |-> NoCT, cs |-> NoCS, ret |-> "none",
     bitmap |-> NoBitmap, view |-> NoView, planes |-> NoPlanes,
     data |-> NoData, budgeted |-> FALSE, gp |-> "none", copy |-> "none",
     genOk |-> "none", ro |-> "none", plane |-> 0,
     hist |-> <<>>, tried |-> <<>>, won |-> 0, gcalls |-> 0]

\* The record of a call that starts.
StartCall(opname, i) == [IdleThread EXCEPT !.op = opname, !.img = i, !.ret = "pending"]

\* SkBitmapCacheDesc::Make(this): the image's id with its full bounds.
BitmapCacheDesc(i) == images[i].uid

\* What the generator writes into a pixmap of the given color type and space.
GenPixels(ct, cs) == <<ct, cs>>

\* SkBitmapCache::Find
BitmapCacheHas(desc) == \E r \in bitmapCache : r.desc = desc
BitmapCacheFind(desc) == CHOOSE r \in bitmapCache : r.desc = desc

\* SkBitmapCache::Add: the record is committed; a record already there for the
\* same descriptor stays and the new one is discarded.
BitmapCacheAdd(cache, desc, pixels) ==
    IF \E r \in cache : r.desc = desc THEN cache
    ELSE cache \cup {[desc |-> desc, pixels |-> pixels]}

\* SK_HISTOGRAM_ENUMERATION("LockTexturePath", value, ...): one more sample.
Histogram(h, value) == Append(h, value)

\* An end of lockTextureProxyView that returns the empty view unrecorded.
ReturnEmptyUnrecorded(rec) ==
    [rec EXCEPT !.pc = "done", !.ret = "fail", !.view = NoView]

\* Lines 556-557: every stage failed; the failure is recorded and the empty
\* view returned.
RecordFailure(rec) ==
    [rec EXCEPT !.pc = "done", !.ret = "fail", !.view = NoView,
                !.hist = Histogram(rec.hist, "Failure")]

\* How an accessor that called getROPixels goes on when it returns: getROPixels
\* itself is done, onReadPixels converts into the caller's buffer,
\* lockTextureProxyView uploads the bitmap or records the failure.
AfterROPixels(rec, ok, bm) ==
    LET out == [rec EXCEPT !.bitmap = bm, !.ro = IF ok THEN "ok" ELSE "fail"]
    IN  CASE rec.op = "getROPixels" ->
                {[out EXCEPT !.pc = "done", !.ret = IF ok THEN "ok" ELSE "fail"]}
          [] rec.op = "readPixels" ->
                {[out EXCEPT !.pc = "done",
                             !.ret = IF ok /\ conv THEN "ok" ELSE "fail"] :
                    conv \in BOOLEAN}
          [] OTHER ->
                IF ok THEN {[out EXCEPT !.pc = "lk_upload"]}
                ELSE {RecordFailure(out)}

(***************************************************************************)
(* SkImage_Lazy::getROPixels and SkImage_Lazy::onReadPixels.               *)
(***************************************************************************)
CallGetROPixels(t, i, chint) ==
    /\ th[t].pc = "idle"
    /\ i \in 1..Len(images)
    /\ th' = [th EXCEPT ![t] = [StartCall("getROPixels", i) EXCEPT
                                   !.pc = "ro_find", !.hint = chint]]
    /\ UNCHANGED <<mutex, cacheVars, disableYUV, recolorVars, lockVars>>

CallReadPixels(t, i, chint) ==
    /\ th[t].pc = "idle"
    /\ i \in 1..Len(images)
    /\ th' = [th EXCEPT ![t] = [StartCall("readPixels", i) EXCEPT
                                   !.pc = "ro_find", !.hint = chint]]
    /\ UNCHANGED <<mutex, cacheVars, disableYUV, recolorVars, lockVars>>

\* A mutation of DecodesIntoCache that ignores the hint.
DecodesIntoCacheAlways(chint) == TRUE

\* The pixels tryAllocPixels gave the caller's bitmap, before or without the
\* generator's output: allocated, of no defined content, not immutable.
UnfilledBitmap == [pixels |-> <<"unfilled">>, immutable |-> FALSE, owner |-> "private"]

\* A private decode that forgets setImmutable.
PrivateBitmapMutable(px) == [pixels |-> px, immutable |-> FALSE, owner |-> "private"]

\* Lines 154-158: the caller's bitmap after a private decode, set immutable.
PrivateBitmap(px) == [pixels |-> px, immutable |-> TRUE, owner |-> "private"]

\* The hint that decides where the pixels are decoded (line 145).
DecodesIntoCache(chint) == chint = "Allow"

\* A mutation of ROFind whose allocation publishes the cache record before the
\* generator has filled it.
ROFindPublishes(t) ==
    /\ th[t].pc = "ro_find"
    /\ LET rec == th[t]
           desc == BitmapCacheDesc(rec.img)
       IN  IF BitmapCacheHas(desc)
           THEN /\ \E nxt \in AfterROPixels(rec, TRUE,
                                 [pixels |-> BitmapCacheFind(desc).pixels,
                                  immutable |-> TRUE, owner |-> "cache"]) :
                       th' = [th EXCEPT ![t] = nxt]
                /\ UNCHANGED bitmapCache
           ELSE \E allocOk \in BOOLEAN :
                    IF allocOk
                    THEN /\ th' = [th EXCEPT ![t].pc = "ro_acq"]
                         /\ bitmapCache' =
                               IF DecodesIntoCache(rec.hint)
                               THEN BitmapCacheAdd(bitmapCache, desc, <<>>)
                               ELSE bitmapCache
                    ELSE /\ \E nxt \in AfterROPixels(rec, FALSE, NoBitmap) :
                               th' = [th EXCEPT ![t] = nxt]
                         /\ UNCHANGED bitmapCache
    /\ UNCHANGED <<mutex, yuvCache, texCache, listeners, notified, disableYUV,
                   recolorVars, lockVars>>

\* Lines 139-147 and 154: the cache probe, then the allocation of the cache
\* record (Allow) or of private pixels (Disallow), before the generator is asked.
ROFind(t) ==
    /\ th[t].pc = "ro_find"
    /\ LET rec == th[t]
           desc == BitmapCacheDesc(rec.img)
       IN  IF BitmapCacheHas(desc)
           THEN \E nxt \in AfterROPixels(rec, TRUE,
                              [pixels |-> BitmapCacheFind(desc).pixels,
                               immutable |-> TRUE, owner |-> "cache"]) :
                    th' = [th EXCEPT ![t] = nxt]
           ELSE \E allocOk \in BOOLEAN :
                    IF allocOk
                    THEN th' = [th EXCEPT ![t].pc = "ro_acq"]
                    ELSE \E nxt \in AfterROPixels(rec, FALSE, NoBitmap) :
                            th' = [th EXCEPT ![t] = nxt]
    /\ UNCHANGED <<mutex, cacheVars, disableYUV, recolorVars, lockVars>>

\* A ScopedGenerator that does not wait for the mutex.
ScopedGeneratorNoWait(t) == mutex' = t

\* ScopedGenerator::ScopedGenerator: SkAutoMutexExclusive on fMutex.
ScopedGenerator(t) == mutex = NoThread /\ mutex' = t

\* A scope left with the mutex still taken.
KeepGenerator(t) == mutex' = mutex

\* ~ScopedGenerator
ReleaseGenerator(t) == mutex' = NoThread

\* ScopedGenerator(fSharedGenerator)->getPixels(...): the mutex is taken and the
\* generator entered.
ROAcquire(t) ==
    /\ th[t].pc = "ro_acq"
    /\ ScopedGenerator(t)
    /\ th' = [th EXCEPT ![t].pc = "ro_inGetPixels", ![t].gcalls = @ + 1]
    /\ UNCHANGED <<cacheVars, disableYUV, recolorVars, lockVars>>

\* getPixels returns and the temporary ScopedGenerator is destroyed.
ROGetPixelsReturn(t) ==
    /\ th[t].pc = "ro_inGetPixels"
    /\ ReleaseGenerator(t)
    /\ LET rec == th[t]
           px == GenPixels(images[rec.img].ct, images[rec.img].cs)
       IN  \E ok \in BOOLEAN :
              IF ~ok
              THEN \E nxt \in AfterROPixels([rec EXCEPT !.genOk = "fail"], FALSE,
                                 IF DecodesIntoCache(rec.hint)
                                 THEN NoBitmap ELSE UnfilledBitmap) :
                      th' = [th EXCEPT ![t] = nxt]
              ELSE IF DecodesIntoCache(rec.hint)
              THEN th' = [th EXCEPT ![t].pc = "ro_add", ![t].genOk = "ok"]
              ELSE \E nxt \in AfterROPixels([rec EXCEPT !.genOk = "ok"], TRUE,
                                 PrivateBitmap(px)) :
                      th' = [th EXCEPT ![t] = nxt]
    /\ UNCHANGED <<cacheVars, disableYUV, recolorVars, lockVars>>

\* A mutation of ROAdd that hands the pixels out and leaves the cache alone.
ROAddNoCommit(t) ==
    /\ th[t].pc = "ro_add"
    /\ LET rec == th[t]
           px == GenPixels(images[rec.img].ct, images[rec.img].cs)
       IN  th' = [th EXCEPT ![t] =
                     [rec EXCEPT !.pc = "ro_notify",
                         !.bitmap = [pixels |-> px, immutable |-> TRUE,
                                     owner |-> "cache"]]]
    /\ UNCHANGED <<mutex, cacheVars, disableYUV, recolorVars, lockVars>>

\* A mutation of ROAdd that fails the call whose record comes second.
ROAddLoserFails(t) ==
    /\ th[t].pc = "ro_add"
    /\ LET rec == th[t]
           desc == BitmapCacheDesc(rec.img)
           px == GenPixels(images[rec.img].ct, images[rec.img].cs)
       IN  /\ bitmapCache' = BitmapCacheAdd(bitmapCache, desc, px)
           /\ IF BitmapCacheHas(desc)
              THEN \E nxt \in AfterROPixels(rec, FALSE, NoBitmap) :
                      th' = [th EXCEPT ![t] = nxt]
              ELSE th' = [th EXCEPT ![t] =
                             [rec EXCEPT !.pc = "ro_notify",
                                 !.bitmap = [pixels |-> px, immutable |-> TRUE,
                                             owner |-> "cache"]]]
    /\ UNCHANGED <<mutex, yuvCache, texCache, listeners, notified, disableYUV,
                   recolorVars, lockVars>>

\* SkBitmapCache::Add (line 151): the record enters the cache and the bitmap
\* is set to its pixels.
ROAdd(t) ==
    /\ th[t].pc = "ro_add"
    /\ LET rec == th[t]
           desc == BitmapCacheDesc(rec.img)
           px == GenPixels(images[rec.img].ct, images[rec.img].cs)
       IN  /\ bitmapCache' = BitmapCacheAdd(bitmapCache, desc, px)
           /\ th' = [th EXCEPT ![t] =
                        [rec EXCEPT !.pc = "ro_notify",
                            !.bitmap = [pixels |-> px, immutable |-> TRUE,
                                        owner |-> "cache"]]]
    /\ UNCHANGED <<mutex, yuvCache, texCache, listeners, notified, disableYUV,
                   recolorVars, lockVars>>

\* notifyAddedToRasterCache (line 152) and the return of getROPixels (lines
\* 161-162).
RONotify(t) ==
    /\ th[t].pc = "ro_notify"
    /\ LET rec == th[t]
       IN  /\ notified' = notified \cup {rec.img}
           /\ \E nxt \in AfterROPixels(rec, TRUE, rec.bitmap) :
                 th' = [th EXCEPT ![t] = nxt]
    /\ UNCHANGED <<mutex, bitmapCache, yuvCache, texCache, listeners, disableYUV,
                   recolorVars, lockVars>>

(***************************************************************************)
(* SkImage_Lazy::onRefEncoded.  The id comparison reads the generator's    *)
(* constant id without the mutex.                                          *)
(***************************************************************************)
\* An onRefEncoded that asks the generator whatever the image's id.
CallRefEncodedUnguarded(t, i) ==
    /\ th[t].pc = "idle"
    /\ i \in 1..Len(images)
    /\ th' = [th EXCEPT ![t] = [StartCall("refEncoded", i) EXCEPT !.pc = "enc_acq"]]
    /\ UNCHANGED <<mutex, cacheVars, disableYUV, recolorVars, lockVars>>

CallRefEncoded(t, i) ==
    /\ th[t].pc = "idle"
    /\ i \in 1..Len(images)
    /\ th' = [th EXCEPT ![t] =
                 IF GenUniqueID(images[i].gen) = images[i].uid
                 THEN [StartCall("refEncoded", i) EXCEPT !.pc = "enc_acq"]
                 ELSE [StartCall("refEncoded", i) EXCEPT !.pc = "done", !.ret = "fail"]]
    /\ UNCHANGED <<mutex, cacheVars, disableYUV, recolorVars, lockVars>>

RefEncodedAcquire(t) ==
    /\ th[t].pc = "enc_acq"
    /\ ScopedGenerator(t)
    /\ th' = [th EXCEPT ![t].pc = "enc_inRefEncoded", ![t].gcalls = @ + 1]
    /\ UNCHANGED <<cacheVars, disableYUV, recolorVars, lockVars>>

\* refEncodedData returns the encoded bytes, or null when the generator has none.
RefEncodedReturn(t) ==
    /\ th[t].pc = "enc_inRefEncoded"
    /\ ReleaseGenerator(t)
    /\ \E has \in BOOLEAN :
          th' = [th EXCEPT ![t].pc = "done", ![t].ret = IF has THEN "ok" ELSE "fail"]
    /\ UNCHANGED <<cacheVars, disableYUV, recolorVars, lockVars>>

(***************************************************************************)
(* SkImage_Lazy::onIsValid                                                 *)
(***************************************************************************)
CallIsValid(t, i) ==
    /\ th[t].pc = "idle"
    /\ i \in 1..Len(images)
    /\ th' = [th EXCEPT ![t] = [StartCall("isValid", i) EXCEPT !.pc = "valid_acq"]]
    /\ UNCHANGED <<mutex, cacheVars, disableYUV, recolorVars, lockVars>>

IsValidAcquire(t) ==
    /\ th[t].pc = "valid_acq"
    /\ ScopedGenerator(t)
    /\ th' = [th EXCEPT ![t].pc = "valid_inIsValid", ![t].gcalls = @ + 1]
    /\ UNCHANGED <<cacheVars, disableYUV, recolorVars, lockVars>>

IsValidReturn(t) ==
    /\ th[t].pc = "valid_inIsValid"
    /\ ReleaseGenerator(t)
    /\ \E valid \in BOOLEAN :
          th' = [th EXCEPT ![t].pc = "done", ![t].ret = IF valid THEN "ok" ELSE "fail"]
    /\ UNCHANGED <<cacheVars, disableYUV, recolorVars, lockVars>>

(***************************************************************************)
(* SkImage_Lazy::onReinterpretColorSpace: the bitmap carries the new color *)
(* space, the generator paints through a pixmap that carries the image's.  *)
(***************************************************************************)
CallReinterpretColorSpace(t, i, newCS) ==
    /\ th[t].pc = "idle"
    /\ i \in 1..Len(images)
    /\ \E allocOk \in BOOLEAN :
          th' = [th EXCEPT ![t] =
                    IF allocOk
                    THEN [StartCall("reinterpret", i) EXCEPT !.pc = "reint_acq", !.cs = newCS]
                    ELSE [StartCall("reinterpret", i) EXCEPT !.pc = "done", !.cs = newCS,
                                                            !.ret = "fail"]]
    /\ UNCHANGED <<mutex, cacheVars, disableYUV, recolorVars, lockVars>>

ReinterpretAcquire(t) ==
    /\ th[t].pc = "reint_acq"
    /\ ScopedGenerator(t)
    /\ th' = [th EXCEPT ![t].pc = "reint_inGetPixels", ![t].gcalls = @ + 1]
    /\ UNCHANGED <<cacheVars, disableYUV, recolorVars, lockVars>>

ReinterpretReturn(t) ==
    /\ th[t].pc = "reint_inGetPixels"
    /\ ReleaseGenerator(t)
    /\ LET rec == th[t]
       IN  \E ok \in BOOLEAN :
              th' = [th EXCEPT ![t] =
                        IF ok
                        THEN [rec EXCEPT !.pc = "done", !.ret = "ok",
                                 !.bitmap = [pixels |-> GenPixels(images[rec.img].ct,
                                                                  images[rec.img].cs),
                                             immutable |-> TRUE, owner |-> "private"]]
                        ELSE [rec EXCEPT !.pc = "done", !.ret = "fail"]]
    /\ UNCHANGED <<cacheVars, disableYUV, recolorVars, lockVars>>

(***************************************************************************)
(* The YUV planar path.                                                    *)
(***************************************************************************)
\* SkYUVASizeInfo::kMaxCount
kMaxCount == 4

\* SkImageGenerator::queryYUVA8: the SkYUVASizeInfo of the generator's planes,
\* per plane fWidthBytes and fSizes.fHeight.
GenSizeInfo(g) == gens[g].si

\* Planes Y, U, V and no alpha.
DefaultSizeInfo ==
    <<[rb |-> 2, h |-> 2], [rb |-> 1, h |-> 1], [rb |-> 1, h |-> 1], [rb |-> 0, h |-> 0]>>

NullPtr == [base |-> "null", off |-> 0]

\* Lines 374-385 and 404-415: plane 0 is the buffer, each later plane is null
\* when its fWidthBytes is 0 and else follows the plane before it.
RECURSIVE PlanePtr(_, _)
PlanePtr(si, i) ==
    IF i = 1 THEN [base |-> "data", off |-> 0]
    ELSE IF si[i].rb = 0 THEN NullPtr
    ELSE LET prev == PlanePtr(si, i - 1)
         IN  [base |-> prev.base, off |-> prev.off + si[i - 1].rb * si[i - 1].h]

PlanePointers(si) == [i \in 1..kMaxCount |-> PlanePtr(si, i)]

\* Lines 394-400: the size of the one buffer behind all planes.
RECURSIVE TotalSizeUpTo(_, _)
TotalSizeUpTo(si, n) ==
    IF n = 0 THEN 0 ELSE TotalSizeUpTo(si, n - 1) + si[n].rb * si[n].h

TotalSize(si) == TotalSizeUpTo(si, kMaxCount)

\* SkYUVPlanesCache::FindAndRef
YUVCacheHas(key) == \E r \in yuvCache : r.key = key
YUVCacheFind(key) == CHOOSE r \in yuvCache : r.key = key

\* SkYUVPlanesCache::Add: an entry already there for the key stays.
YUVCacheAdd(cache, key, si, size) ==
    IF \E r \in cache : r.key = key THEN cache
    ELSE cache \cup {[key |-> key, sizeInfo |-> si, size |-> size]}

\* The key getPlanes looks the planes up under (line 369) and the key it adds
\* them under (line 423).
PlanesFindKey(i) == GenUniqueID(images[i].gen)
PlanesAddKey(i) == images[i].uid

\* The policy lockTextureProxyView reads pixels with at stage 4 (lines 538-539).
Stage4Hint(policy) == IF policy = "Draw" THEN "Allow" ELSE "Disallow"

\* SkCachedData::ref and unref.
Ref(d) == [d EXCEPT !.rc = @ + 1]
Unref(d) == [d EXCEPT !.rc = @ - 1]

\* A plane wrapped without a reference of its own.
WrapPlaneNoRef(d) == [d EXCEPT !.bm = @ + 1]

\* Lines 295-304: a reference is taken for the bitmap that wraps the plane.
WrapPlane(d) == [Ref(d) EXCEPT !.bm = @ + 1]

\* releaseProc, lines 297-301: a plane bitmap goes away and gives its
\* reference back.
ReleaseProc(d) == [Unref(d) EXCEPT !.bm = @ - 1]

\* ~sk_sp<SkCachedData>: the reference of a non-null pointer is given back.
ResetData(d) == IF d.sp = 1 THEN [Unref(d) EXCEPT !.sp = 0] ELSE d

\* The locals of textureProxyViewFromPlanes and getPlanes go out of scope on
\* a return: the plane bitmaps and views, then the sk_sp.
RECURSIVE LeaveScope(_)
LeaveScope(d) == IF d.bm > 0 THEN LeaveScope(ReleaseProc(d)) ELSE ResetData(d)

\* How the caller of textureProxyViewFromPlanes goes on with an empty view:
\* lockTextureProxyView falls through to stage 4.
AfterPlanesFail(rec) ==
    IF rec.op = "fromPlanes"
    THEN [rec EXCEPT !.pc = "done", !.ret = "fail", !.view = NoView,
                     !.planes = NoPlanes, !.data = LeaveScope(rec.data)]
    ELSE [rec EXCEPT !.pc = "ro_find", !.hint = Stage4Hint(rec.policy),
                     !.tried = Append(rec.tried, 4), !.plane = 0,
                     !.planes = NoPlanes, !.data = LeaveScope(rec.data)]

\* getPlanes returns null: textureProxyViewFromPlanes returns an empty view.
AfterGetPlanesFail(rec) == AfterPlanesFail([rec EXCEPT !.gp = "fail"])

CallTextureProxyViewFromPlanes(t, i, budgeted) ==
    /\ th[t].pc = "idle"
    /\ i \in 1..Len(images)
    /\ th' = [th EXCEPT ![t] = [StartCall("fromPlanes", i) EXCEPT
                                   !.pc = "pl_acq", !.budgeted = budgeted]]
    /\ UNCHANGED <<mutex, cacheVars, disableYUV, recolorVars, lockVars>>

\* getPlanes, lines 365-391: the mutex is taken for the whole function; on a
\* cache hit the planes are rebuilt, on a miss the generator is asked for the
\* plane sizes.
PlanesAcquire(t) ==
    /\ th[t].pc = "pl_acq"
    /\ ScopedGenerator(t)
    /\ LET rec == th[t]
           key == PlanesFindKey(rec.img)
       IN  IF YUVCacheHas(key)
           THEN th' = [th EXCEPT ![t] =
                          [rec EXCEPT !.pc = "pl_ret", !.gp = "hit",
                              !.planes = PlanePointers(YUVCacheFind(key).sizeInfo),
                              !.data = Ref([size |-> YUVCacheFind(key).size,
                                            owner |-> "cache", rc |-> 1,
                                            sp |-> 1, bm |-> 0, cache |-> 1])]]
           ELSE th' = [th EXCEPT ![t].pc = "pl_inQuery", ![t].gcalls = @ + 1]
    /\ UNCHANGED <<cacheVars, disableYUV, recolorVars, lockVars>>

\* queryYUVA8 returns (lines 388-415); on success the buffer is allocated, the
\* plane pointers are laid out and getYUVA8Planes is entered.
PlanesQueryReturn(t) ==
    /\ th[t].pc = "pl_inQuery"
    /\ LET rec == th[t]
       IN  \E ok \in BOOLEAN :
              IF ok
              THEN /\ th' = [th EXCEPT ![t] =
                                [rec EXCEPT !.pc = "pl_inGetPlanes",
                                    !.gcalls = @ + 1,
                                    !.planes = PlanePointers(
                                                   GenSizeInfo(images[rec.img].gen)),
                                    !.data = [size |-> TotalSize(
                                                  GenSizeInfo(images[rec.img].gen)),
                                              owner |-> "new", rc |-> 1, sp |-> 1,
                                              bm |-> 0, cache |-> 0]]]
                   /\ UNCHANGED mutex
              ELSE /\ th' = [th EXCEPT ![t] = AfterGetPlanesFail(rec)]
                   /\ ReleaseGenerator(t)
    /\ UNCHANGED <<cacheVars, disableYUV, recolorVars, lockVars>>

\* SkYUVPlanesCache::Add, line 423, seen from the buffer: the cache takes a
\* reference unless it has an entry for the key and discards the new one.
AddedData(d, key) == IF YUVCacheHas(key) THEN d ELSE [Ref(d) EXCEPT !.cache = 1]

\* getYUVA8Planes returns (lines 418-433); on success the planes are cached.
PlanesGetReturn(t) ==
    /\ th[t].pc = "pl_inGetPlanes"
    /\ LET rec == th[t]
       IN  \E ok \in BOOLEAN :
              IF ok
              THEN /\ yuvCache' = YUVCacheAdd(yuvCache, PlanesAddKey(rec.img),
                                              GenSizeInfo(images[rec.img].gen),
                                              rec.data.size)
                   /\ th' = [th EXCEPT ![t].pc = "pl_ret", ![t].gp = "miss",
                                       ![t].data = AddedData(rec.data,
                                                             PlanesAddKey(rec.img))]
                   /\ UNCHANGED mutex
              ELSE /\ th' = [th EXCEPT ![t] = AfterGetPlanesFail(rec)]
                   /\ ReleaseGenerator(t)
                   /\ UNCHANGED yuvCache
    /\ UNCHANGED <<bitmapCache, texCache, listeners, notified, disableYUV, recolorVars, lockVars>>

\* getPlanes returns the buffer, lines 426-433: the outputs are copied and the
\* mutex is released as the function is left.
PlanesReturn(t) ==
    /\ th[t].pc = "pl_ret"
    /\ ReleaseGenerator(t)
    /\ th' = [th EXCEPT ![t].pc = "tp_upload", ![t].plane = 1]
    /\ UNCHANGED <<cacheVars, disableYUV, recolorVars, lockVars>>

\* textureProxyViewFromPlanes, lines 269-324, one turn of the loop per step:
\* an empty plane is skipped, a non-empty plane is wrapped in a bitmap that
\* holds a reference to the buffer and uploaded, and the view either keeps the
\* bitmap (lines 289-294) or lets it go at the end of the turn; after the last
\* plane the render target is made.  An upload or the render target can fail.
PlanesUpload(t) ==
    /\ th[t].pc = "tp_upload"
    /\ LET rec == th[t]
           i == rec.plane
           si == GenSizeInfo(images[rec.img].gen)
       IN  IF i > kMaxCount
           THEN \E ok \in BOOLEAN :
                   th' = [th EXCEPT ![t] =
                             IF ok THEN [rec EXCEPT !.pc = "tp_cs"]
                             ELSE AfterPlanesFail(rec)]
           ELSE IF si[i].rb = 0 \/ si[i].h = 0
           THEN th' = [th EXCEPT ![t].plane = i + 1]
           ELSE \E ok \in BOOLEAN, keep \in BOOLEAN :
                   th' = [th EXCEPT ![t] =
                             IF ~ok
                             THEN AfterPlanesFail([rec EXCEPT
                                                      !.data = WrapPlane(rec.data)])
                             ELSE [rec EXCEPT
                                      !.plane = i + 1,
                                      !.data = IF keep THEN WrapPlane(rec.data)
                                               ELSE ReleaseProc(WrapPlane(rec.data))]]
    /\ UNCHANGED <<mutex, cacheVars, disableYUV, recolorVars, lockVars>>

\* A plane bitmap that a view kept goes away with the view, after the call.
DropPlaneBitmap(t) ==
    /\ th[t].pc = "done"
    /\ th[t].data.bm > 0
    /\ th' = [th EXCEPT ![t].data = ReleaseProc(@)]
    /\ UNCHANGED <<mutex, cacheVars, disableYUV, recolorVars, lockVars>>

(***************************************************************************)
(* The texture cascade.                                                    *)
(***************************************************************************)
\* A key made for every policy.
MakeKeyAlways(i, policy) == images[i].uid

\* GrMakeKeyFromImageID under the Draw policy (lines 460-463); else no key.
MakeKey(i, policy) == IF policy = "Draw" THEN images[i].uid ELSE NoKey

\* GrProxyProvider::findOrCreateProxyByUniqueKey: the place of the proxy that
\* carries the key among the context's keyed proxies, 0 when there is none.
FindProxyByUniqueKey(proxies, key) ==
    IF \E k \in 1..Len(proxies) : proxies[k].key = key
    THEN CHOOSE k \in 1..Len(proxies) :
            /\ proxies[k].key = key
            /\ \A j \in 1..(k - 1) : proxies[j].key # key
    ELSE 0

\* GrProxyProvider::removeUniqueKeyFromProxy (line 501)
RemoveUniqueKeyFromProxy(proxies, k) ==
    SubSeq(proxies, 1, k - 1) \o SubSeq(proxies, k + 1, Len(proxies))

\* An installKey that never assigns the key.
InstallKeyNoAssign(tc, c, key, view) == tc

\* installKey, line 473: assignUniqueKeyToProxy when the key is valid.
InstallKeyProxies(tc, c, key, view) ==
    IF key # NoKey THEN [tc EXCEPT ![c] = Append(@, [view EXCEPT !.key = key])] ELSE tc

\* An installKey that registers no listener.
InstallKeyNoListener(ls, i, key, c) == ls

\* installKey, lines 471-472, and addUniqueIDListener: one listener for the key
\* and the context's id is appended when the key is valid.
InstallKeyListeners(ls, i, key, c) ==
    IF key # NoKey THEN [ls EXCEPT ![i] = Append(@, <<key, c>>)] ELSE ls

\* A mipmap upgrade that leaves the key on the proxy that was found.
ReleaseKeyForCopySkipped(tc, c, idx) == tc

\* Line 501: the key is taken off the proxy that was found, before installKey
\* gives it to the mipmapped copy.
ReleaseKeyForCopy(tc, c, idx) == [tc EXCEPT ![c] = RemoveUniqueKeyFromProxy(@, idx)]

\* The view installKey leaves behind.
Keyed(view, key) == [view EXCEPT !.key = key]

\* The listeners of image i that context c registered.
InstallCount(i, c) ==
    Cardinality({k \in 1..Len(listeners[i]) : listeners[i][k][2] = c})

\* A mutation of Stage3Enabled that forgets the mipmap preference.
Stage3IgnoresMip(mipMapped, yuvOff) == ~yuvOff

\* Stage 3 is tried only without mipmaps and with GPU YUV conversion (line 522).
Stage3Enabled(mipMapped, yuvOff) == ~mipMapped /\ ~yuvOff

\* Lines 460-506: the key, and stage 1.  A keyed proxy that is found is returned
\* as it is, or replaced by a mipmapped copy that takes over the key.
\* A failed copy that gives the proxy up and goes on to stage 2.
CopyFailedContinues(hit, found) ==
    [hit EXCEPT !.pc = "lk_s2", !.ret = "pending", !.won = 0, !.hist = <<>>,
                !.copy = "fail"]

\* Lines 494-499: without a mipmapped copy the view that was found is returned.
CopyFailed(hit, found) == [hit EXCEPT !.view = found, !.copy = "fail"]

CallLockTextureProxyView(t, i, policy, mipMapped) ==
    /\ th[t].pc = "idle"
    /\ i \in 1..Len(images)
    /\ LET key == MakeKey(i, policy)
           idx == IF key # NoKey THEN FindProxyByUniqueKey(texCache[t], key) ELSE 0
           rec == [StartCall("lock", i) EXCEPT
                      !.policy = policy, !.mip = mipMapped,
                      !.tried = IF key # NoKey THEN <<1>> ELSE <<>>]
           hit == [rec EXCEPT !.pc = "done", !.ret = "ok", !.won = 1,
                              !.hist = Histogram(<<>>, "PreExisting")]
           mippedView == [proxy |-> "tex", key |-> NoKey, mipped |-> TRUE]
       IN  IF idx # 0
           THEN IF ~mipMapped \/ texCache[t][idx].mipped
                THEN /\ th' = [th EXCEPT ![t] = [hit EXCEPT !.view = texCache[t][idx]]]
                     /\ UNCHANGED <<texCache, listeners>>
                ELSE \E copyOk \in BOOLEAN :
                        IF ~copyOk
                        THEN /\ th' = [th EXCEPT ![t] =
                                          CopyFailed(hit, texCache[t][idx])]
                             /\ UNCHANGED <<texCache, listeners>>
                        ELSE /\ InstallCount(i, t) < MaxInstalls
                             /\ texCache' = ReleaseKeyForCopy(texCache, t, idx)
                             /\ UNCHANGED listeners
                             /\ th' = [th EXCEPT ![t] =
                                          [hit EXCEPT !.pc = "lk_install",
                                                      !.ret = "pending",
                                                      !.view = mippedView,
                                                      !.copy = "ok"]]
           ELSE /\ key # NoKey => InstallCount(i, t) < MaxInstalls
                /\ th' = [th EXCEPT ![t] = [rec EXCEPT !.pc = "lk_s2"]]
                /\ UNCHANGED <<texCache, listeners>>
    /\ UNCHANGED <<mutex, bitmapCache, yuvCache, notified, disableYUV, recolorVars, lockVars>>

\* Stage 2, line 510: the generator is taken and generateTexture entered.
LockAcquire(t) ==
    /\ th[t].pc = "lk_s2"
    /\ ScopedGenerator(t)
    /\ th' = [th EXCEPT ![t].pc = "lk_inGenerateTexture", ![t].gcalls = @ + 1,
                        ![t].tried = Append(@, 2)]
    /\ UNCHANGED <<cacheVars, disableYUV, recolorVars, lockVars>>

\* The stage lockTextureProxyView goes to when generateTexture gives no view.
AfterStage2(rec, yuvOff) ==
    IF Stage3Enabled(rec.mip, yuvOff)
    THEN [rec EXCEPT !.pc = "pl_acq", !.tried = Append(rec.tried, 3),
                     !.budgeted = rec.policy # "Unbudgeted"]
    ELSE [rec EXCEPT !.pc = "ro_find", !.tried = Append(rec.tried, 4),
                     !.hint = Stage4Hint(rec.policy)]

\* generateTexture returns (lines 511-518); a view is handed to installKey
\* while the generator is still held; without a view the generator is released.
LockGenerateTextureReturn(t) ==
    /\ th[t].pc = "lk_inGenerateTexture"
    /\ LET rec == th[t]
           key == MakeKey(rec.img, rec.policy)
           view == [proxy |-> "tex", key |-> NoKey, mipped |-> rec.mip]
       IN  \E ok \in BOOLEAN :
              IF ok
              THEN /\ th' = [th EXCEPT ![t] =
                                [rec EXCEPT !.pc = "lk_install", !.won = 2,
                                            !.view = view]]
                   /\ UNCHANGED mutex
              ELSE /\ th' = [th EXCEPT ![t] = AfterStage2(rec, disableYUV)]
                   /\ ReleaseGenerator(t)
    /\ UNCHANGED <<cacheVars, disableYUV, recolorVars, lockVars>>

\* The histogram value of stages 2 and 3 (lines 514, 530), then installKey,
\* lines 469-472, and addUniqueIDListener, lines 569-572: with an invalid key
\* nothing is registered; with unique() true the listener is appended without
\* the mutex of the listener set; otherwise the mutex of the set is taken.
LockInstallKey(t) ==
    /\ th[t].pc = "lk_install"
    /\ LET rec == th[t]
           key == MakeKey(rec.img, rec.policy)
           hist == IF rec.won = 2 THEN Histogram(rec.hist, "Native")
                   ELSE IF rec.won = 3 THEN Histogram(rec.hist, "YUV")
                   ELSE rec.hist
       IN  \E singleThreaded \in BOOLEAN :
              IF key = NoKey \/ singleThreaded
              THEN /\ listeners' = InstallKeyListeners(listeners, rec.img, key, t)
                   /\ th' = [th EXCEPT ![t] =
                                [rec EXCEPT !.pc = "lk_bind", !.hist = hist]]
                   /\ UNCHANGED listMutex
              ELSE /\ listMutex[rec.img] = NoThread
                   /\ listMutex' = [listMutex EXCEPT ![rec.img] = t]
                   /\ th' = [th EXCEPT ![t] =
                                [rec EXCEPT !.pc = "lk_inListAdd", !.hist = hist]]
                   /\ UNCHANGED listeners
    /\ UNCHANGED <<mutex, recolorMutex, bitmapCache, yuvCache, texCache, notified,
                   disableYUV, recolorVars>>

\* SkIDChangeListener::List::add under its mutex: the listener is appended.
LockListenerAdd(t) ==
    /\ th[t].pc = "lk_inListAdd"
    /\ LET rec == th[t]
           key == MakeKey(rec.img, rec.policy)
       IN  /\ listeners' = InstallKeyListeners(listeners, rec.img, key, t)
           /\ th' = [th EXCEPT ![t].pc = "lk_listAdded"]
    /\ UNCHANGED <<mutex, lockVars, bitmapCache, yuvCache, texCache, notified,
                   disableYUV, recolorVars>>

\* SkIDChangeListener::List::add returns: the mutex of the set is released.
LockListenerLeave(t) ==
    /\ th[t].pc = "lk_listAdded"
    /\ listMutex' = [listMutex EXCEPT ![th[t].img] = NoThread]
    /\ th' = [th EXCEPT ![t].pc = "lk_bind"]
    /\ UNCHANGED <<mutex, recolorMutex, cacheVars, disableYUV, recolorVars>>

\* installKey, line 473, and the return of the view: the key is assigned to the
\* proxy; stage 4 records its histogram value after installKey (lines 549-551);
\* stage 2 has the generator's scope still to leave.
LockBind(t) ==
    /\ th[t].pc = "lk_bind"
    /\ LET rec == th[t]
           key == MakeKey(rec.img, rec.policy)
       IN  /\ texCache' = InstallKeyProxies(texCache, t, key, rec.view)
           /\ th' = [th EXCEPT ![t] =
                        [rec EXCEPT !.pc = IF rec.won = 2 THEN "lk_ret" ELSE "done",
                            !.ret = IF rec.won = 2 THEN rec.ret ELSE "ok",
                            !.view = Keyed(rec.view, key),
                            !.hist = IF rec.won = 4
                                     THEN Histogram(rec.hist, "RGBA") ELSE rec.hist]]
    /\ UNCHANGED <<mutex, bitmapCache, yuvCache, listeners, notified, disableYUV,
                   recolorVars, lockVars>>

\* Stage 2 returns the view, lines 517-518: the ScopedGenerator of the block
\* goes out of scope.
LockLeaveGenerator(t) ==
    /\ th[t].pc = "lk_ret"
    /\ ReleaseGenerator(t)
    /\ th' = [th EXCEPT ![t].pc = "done", ![t].ret = "ok"]
    /\ UNCHANGED <<cacheVars, disableYUV, recolorVars, lockVars>>

\* textureProxyViewFromPlanes, lines 335-338: the mutex is taken to read the
\* generator's color space.
PlanesColorSpaceAcquire(t) ==
    /\ th[t].pc = "tp_cs"
    /\ ScopedGenerator(t)
    /\ th' = [th EXCEPT ![t].pc = "tp_inGetInfo"]
    /\ UNCHANGED <<cacheVars, disableYUV, recolorVars, lockVars>>

\* textureProxyViewFromPlanes, lines 339-357: the mutex is released, the planes
\* are drawn and the view is returned, to the caller or to stage 3 of
\* lockTextureProxyView (line 528).
PlanesColorSpaceAndDraw(t) ==
    /\ th[t].pc = "tp_inGetInfo"
    /\ ReleaseGenerator(t)
    /\ LET rec == th[t]
           view == [proxy |-> "tex", key |-> NoKey, mipped |-> FALSE]
       IN  th' = [th EXCEPT ![t] =
                     IF rec.op = "fromPlanes"
                     THEN [rec EXCEPT !.pc = "done", !.ret = "ok", !.view = view,
                                      !.data = ResetData(rec.data)]
                     ELSE [rec EXCEPT !.pc = "lk_install", !.won = 3, !.view = view,
                                      !.data = ResetData(rec.data)]]
    /\ UNCHANGED <<cacheVars, disableYUV, recolorVars, lockVars>>

\* Stage 4, lines 546-557: the bitmap is uploaded; the view is keyed, or the
\* call fails.
LockUpload(t) ==
    /\ th[t].pc = "lk_upload"
    /\ LET rec == th[t]
           key == MakeKey(rec.img, rec.policy)
           view == [proxy |-> "tex", key |-> NoKey, mipped |-> rec.mip]
       IN  \E ok \in BOOLEAN :
              IF ok
              THEN th' = [th EXCEPT ![t] =
                             [rec EXCEPT !.pc = "lk_install", !.won = 4,
                                         !.view = view]]
              ELSE th' = [th EXCEPT ![t] = RecordFailure(rec)]
    /\ UNCHANGED <<mutex, cacheVars, disableYUV, recolorVars, lockVars>>

(***************************************************************************)
(* onMakeColorTypeAndColorSpace called by a thread: the mutex of the image *)
(* is taken at line 215, the body runs under it and the mutex is released  *)
(* at the return.  A call starts only while the model has room for the     *)
(* image it may make.                                                      *)
(***************************************************************************)
Recoloring == {u \in Threads : th[u].pc \in {"mk_acq", "mk_in"}}

CallMakeColorTypeAndColorSpace(t, i, targetCT, targetCS) ==
    /\ th[t].pc = "idle"
    /\ i \in 1..Len(images)
    /\ Len(images) + Cardinality(Recoloring) < MaxImages
    /\ th' = [th EXCEPT ![t] = [StartCall("recolor", i) EXCEPT
                                   !.pc = "mk_acq", !.ct = targetCT, !.cs = targetCS]]
    /\ UNCHANGED <<mutex, cacheVars, disableYUV, recolorVars, lockVars>>

RecolorAcquire(t) ==
    /\ th[t].pc = "mk_acq"
    /\ recolorMutex[th[t].img] = NoThread
    /\ recolorMutex' = [recolorMutex EXCEPT ![th[t].img] = t]
    /\ th' = [th EXCEPT ![t].pc = "mk_in"]
    /\ UNCHANGED <<mutex, listMutex, cacheVars, disableYUV, recolorVars>>

RecolorReturn(t) ==
    /\ th[t].pc = "mk_in"
    /\ MakeColorTypeAndColorSpace(th[t].img, th[t].ct, th[t].cs)
    /\ recolorMutex' = [recolorMutex EXCEPT ![th[t].img] = NoThread]
    /\ th' = [th EXCEPT ![t].pc = "done",
                        ![t].ret = IF last'.res # NullImage THEN "ok" ELSE "fail"]
    /\ UNCHANGED <<mutex, listMutex, cacheVars, disableYUV>>

\* The caller takes the result; the thread is free for its next call.
Return(t) ==
    /\ th[t].pc = "done"
    /\ th' = [th EXCEPT ![t] = IdleThread]
    /\ UNCHANGED <<mutex, cacheVars, disableYUV, recolorVars, lockVars>>

(***************************************************************************)
(* The caches purge on their own: the resource cache drops a bitmap or a   *)
(* set of planes, the proxy provider drops a keyed proxy of a context that *)
(* is not drawing.                                                         *)
(***************************************************************************)
AllIdle == \A t \in Threads : th[t].pc = "idle"

EvictBitmap(desc) ==
    /\ AllIdle
    /\ BitmapCacheHas(desc)
    /\ bitmapCache' = {r \in bitmapCache : r.desc # desc}
    /\ UNCHANGED <<mutex, th, yuvCache, texCache, listeners, notified, disableYUV,
                   recolorVars, lockVars>>

EvictPlanes(key) ==
    /\ AllIdle
    /\ YUVCacheHas(key)
    /\ yuvCache' = {r \in yuvCache : r.key # key}
    /\ UNCHANGED <<mutex, th, bitmapCache, texCache, listeners, notified, disableYUV,
                   recolorVars, lockVars>>

EvictProxy(c, k) ==
    /\ th[c].pc = "idle"
    /\ k \in 1..Len(texCache[c])
    /\ texCache' = [texCache EXCEPT
                        ![c] = SubSeq(@, 1, k - 1) \o SubSeq(@, k + 1, Len(@))]
    /\ UNCHANGED <<mutex, th, bitmapCache, yuvCache, listeners, notified, disableYUV,
                   recolorVars, lockVars>>

(***************************************************************************)
(* The specifications.                                                     *)
(***************************************************************************)
Policies == {"Draw", "Budgeted", "Unbudgeted"}
Hints == {"Allow", "Disallow"}

\* The images the accessors run on: the image MakeFromGenerator made of
\* generator 1 and its recoloring to BGRA8, which shares the generator.
OriginalImage == 1
RecoloredImage == 2

AccessorImages ==
    <<[gen |-> 1, uid |-> GenUniqueID(1), ct |-> "RGBA8", cs |-> "sRGB",
       memo |-> RecoloredImage],
      [gen |-> 1, uid |-> NumGens + 1, ct |-> "BGRA8", cs |-> "sRGB",
       memo |-> NullImage]>>

NoOutcome == [op |-> "none", img |-> NullImage, failed |-> FALSE]
NoSnapshot == [bitmap |-> {}, yuv |-> {}, prev |-> NoOutcome, last |-> NoOutcome]
NoSeries == [n |-> 0, decodes |-> 0, px |-> <<>>]

IdleInit ==
    /\ mutex = NoThread
    /\ recolorMutex = [i \in 1..MaxImages |-> NoThread]
    /\ listMutex = [i \in 1..MaxImages |-> NoThread]
    /\ th = [t \in Threads |-> IdleThread]
    /\ bitmapCache = {}
    /\ yuvCache = {}
    /\ texCache = [c \in Threads |-> <<>>]
    /\ listeners = [i \in 1..MaxImages |-> <<>>]
    /\ notified = {}
    /\ pre = NoSnapshot
    /\ series = [d \in {images[i].uid : i \in 1..Len(images)} |-> NoSeries]
    /\ keyed = {}
    /\ evicted = {}

AccessorInit ==
    /\ gens = [g \in Gens |-> [state |-> "ok", ct |-> "RGBA8", cs |-> "sRGB",
                               made |-> g = 1, si |-> DefaultSizeInfo]]
    /\ nextID = NumGens + 2
    /\ last = [op |-> "recolor", src |-> OriginalImage, ct |-> "BGRA8", cs |-> "sRGB",
               res |-> RecoloredImage, fresh |-> TRUE, hit |-> FALSE]
    /\ disableYUV \in BOOLEAN
    /\ IdleInit

\* Several threads share one live image: the original, or its recoloring after
\* the original was dropped.
Init ==
    /\ images \in {<<[AccessorImages[OriginalImage] EXCEPT !.memo = NullImage]>>,
                   <<AccessorImages[RecoloredImage]>>}
    /\ AccessorInit

\* One thread holds the original and its recoloring.
SeqInit ==
    /\ images = AccessorImages
    /\ AccessorInit

\* The threads that own a GrRecordingContext and draw with it.
HasContext(t) == t <= NumContexts

\* Threads running accessors on one image, all through one generator.
Next ==
    \/ \E t \in Threads, i \in 1..MaxImages, h \in Hints :
          CallGetROPixels(t, i, h) /\ UNCHANGED histVars
    \/ \E t \in Threads, i \in 1..MaxImages, h \in Hints :
          CallReadPixels(t, i, h) /\ UNCHANGED histVars
    \/ \E t \in Threads : ROFind(t) /\ UNCHANGED histVars
    \/ \E t \in Threads : ROAcquire(t) /\ UNCHANGED histVars
    \/ \E t \in Threads : ROGetPixelsReturn(t) /\ UNCHANGED histVars
    \/ \E t \in Threads : ROAdd(t) /\ UNCHANGED histVars
    \/ \E t \in Threads : RONotify(t) /\ UNCHANGED histVars
    \/ \E t \in Threads, i \in 1..MaxImages :
          CallRefEncoded(t, i) /\ UNCHANGED histVars
    \/ \E t \in Threads : RefEncodedAcquire(t) /\ UNCHANGED histVars
    \/ \E t \in Threads : RefEncodedReturn(t) /\ UNCHANGED histVars
    \/ \E t \in Threads, i \in 1..MaxImages :
          CallIsValid(t, i) /\ UNCHANGED histVars
    \/ \E t \in Threads : IsValidAcquire(t) /\ UNCHANGED histVars
    \/ \E t \in Threads : IsValidReturn(t) /\ UNCHANGED histVars
    \/ \E t \in Threads, i \in 1..MaxImages, cs \in ColorSpaces \cup {NoCS} :
          CallReinterpretColorSpace(t, i, cs) /\ UNCHANGED histVars
    \/ \E t \in Threads : ReinterpretAcquire(t) /\ UNCHANGED histVars
    \/ \E t \in Threads : ReinterpretReturn(t) /\ UNCHANGED histVars
    \/ \E t \in Threads, i \in 1..MaxImages, b \in BOOLEAN :
          HasContext(t) /\ CallTextureProxyViewFromPlanes(t, i, b) /\ UNCHANGED histVars
    \/ \E t \in Threads : PlanesAcquire(t) /\ UNCHANGED histVars
    \/ \E t \in Threads : PlanesQueryReturn(t) /\ UNCHANGED histVars
    \/ \E t \in Threads : PlanesGetReturn(t) /\ UNCHANGED histVars
    \/ \E t \in Threads : PlanesReturn(t) /\ UNCHANGED histVars
    \/ \E t \in Threads : PlanesUpload(t) /\ UNCHANGED histVars
    \/ \E t \in Threads : PlanesColorSpaceAcquire(t) /\ UNCHANGED histVars
    \/ \E t \in Threads : PlanesColorSpaceAndDraw(t) /\ UNCHANGED histVars
    \/ \E t \in Threads, i \in 1..MaxImages, p \in Policies, m \in BOOLEAN :
          HasContext(t) /\ CallLockTextureProxyView(t, i, p, m) /\ UNCHANGED histVars
    \/ \E t \in Threads : LockAcquire(t) /\ UNCHANGED histVars
    \/ \E t \in Threads : LockGenerateTextureReturn(t) /\ UNCHANGED histVars
    \/ \E t \in Threads : LockBind(t) /\ UNCHANGED histVars
    \/ \E t \in Threads : LockInstallKey(t) /\ UNCHANGED histVars
    \/ \E t \in Threads : LockListenerAdd(t) /\ UNCHANGED histVars
    \/ \E t \in Threads : LockListenerLeave(t) /\ UNCHANGED histVars
    \/ \E t \in Threads : LockLeaveGenerator(t) /\ UNCHANGED histVars
    \/ \E t \in Threads : LockUpload(t) /\ UNCHANGED histVars
    \/ \E t \in Threads : Return(t) /\ UNCHANGED histVars

Spec == Init /\ [][Next]_vars

\* The steps thread t takes inside a call, from the one after the call to the
\* return.
ThreadStep(t) ==
    /\ \/ ROFind(t) \/ ROAcquire(t) \/ ROGetPixelsReturn(t) \/ ROAdd(t)
       \/ RONotify(t)
       \/ RefEncodedAcquire(t) \/ RefEncodedReturn(t)
       \/ IsValidAcquire(t) \/ IsValidReturn(t)
       \/ ReinterpretAcquire(t) \/ ReinterpretReturn(t)
       \/ PlanesAcquire(t) \/ PlanesQueryReturn(t) \/ PlanesGetReturn(t)
       \/ PlanesReturn(t) \/ PlanesUpload(t) \/ PlanesColorSpaceAcquire(t)
       \/ PlanesColorSpaceAndDraw(t)
       \/ LockAcquire(t) \/ LockGenerateTextureReturn(t) \/ LockInstallKey(t)
       \/ LockListenerAdd(t) \/ LockListenerLeave(t) \/ LockBind(t) \/ LockLeaveGenerator(t)
       \/ LockUpload(t) \/ RecolorAcquire(t) \/ RecolorReturn(t) \/ Return(t)
    /\ UNCHANGED histVars

\* Parallel threads and generator calls that return: a thread that can go on
\* takes its next step at some time.  Nothing is assumed of the order in
\* which a mutex lets waiting threads in.
Fairness == \A t \in Threads : WF_vars(ThreadStep(t))

\* Each thread draws with a context of its own.  The threads share the
\* original image and recolor it and its recolorings, which makes further
\* images over the same generator.
LiveInit ==
    /\ images = <<[AccessorImages[OriginalImage] EXCEPT !.memo = NullImage]>>
    /\ AccessorInit
    /\ disableYUV = FALSE

LiveNext ==
    \/ \E t \in Threads : CallIsValid(t, RecoloredImage) /\ UNCHANGED histVars
    \/ \E t \in Threads :
          /\ CallLockTextureProxyView(t, OriginalImage, "Draw", FALSE)
          /\ UNCHANGED histVars
    \/ \E t \in Threads, i \in 1..MaxImages :
          /\ CallMakeColorTypeAndColorSpace(t, i, "BGRA8", "sRGB")
          /\ UNCHANGED histVars
    \/ \E t \in Threads : IsValidAcquire(t) /\ UNCHANGED histVars
    \/ \E t \in Threads : IsValidReturn(t) /\ UNCHANGED histVars
    \/ \E t \in Threads : RecolorAcquire(t) /\ UNCHANGED histVars
    \/ \E t \in Threads : RecolorReturn(t) /\ UNCHANGED histVars
    \/ \E t \in Threads : LockAcquire(t) /\ UNCHANGED histVars
    \/ \E t \in Threads : LockGenerateTextureReturn(t) /\ UNCHANGED histVars
    \/ \E t \in Threads : LockInstallKey(t) /\ UNCHANGED histVars
    \/ \E t \in Threads : LockListenerAdd(t) /\ UNCHANGED histVars
    \/ \E t \in Threads : LockListenerLeave(t) /\ UNCHANGED histVars
    \/ \E t \in Threads : LockBind(t) /\ UNCHANGED histVars
    \/ \E t \in Threads : LockLeaveGenerator(t) /\ UNCHANGED histVars
    \/ \E t \in Threads : PlanesAcquire(t) /\ UNCHANGED histVars
    \/ \E t \in Threads : PlanesQueryReturn(t) /\ UNCHANGED histVars
    \/ \E t \in Threads : PlanesGetReturn(t) /\ UNCHANGED histVars
    \/ \E t \in Threads : PlanesReturn(t) /\ UNCHANGED histVars
    \/ \E t \in Threads : PlanesUpload(t) /\ UNCHANGED histVars
    \/ \E t \in Threads : PlanesColorSpaceAcquire(t) /\ UNCHANGED histVars
    \/ \E t \in Threads : PlanesColorSpaceAndDraw(t) /\ UNCHANGED histVars
    \/ \E t \in Threads : ROFind(t) /\ UNCHANGED histVars
    \/ \E t \in Threads : ROAcquire(t) /\ UNCHANGED histVars
    \/ \E t \in Threads : ROGetPixelsReturn(t) /\ UNCHANGED histVars
    \/ \E t \in Threads : ROAdd(t) /\ UNCHANGED histVars
    \/ \E t \in Threads : RONotify(t) /\ UNCHANGED histVars
    \/ \E t \in Threads : LockUpload(t) /\ UNCHANGED histVars
    \/ \E t \in Threads : Return(t) /\ UNCHANGED histVars

SpecLive == LiveInit /\ [][LiveNext]_vars /\ Fairness

\* Whether the call behind a finished thread record got no pixels or planes.
DecodeFailed(rec) ==
    \/ rec.op \in {"getROPixels", "readPixels"} /\ rec.ro = "fail"
    \/ rec.op = "fromPlanes" /\ rec.gp = "fail"

Capped(n) == IF n > 2 THEN 2 ELSE n

\* The history of a step of thread t: the caches as the call found them, how
\* the last calls ended, the series of successful getROPixels calls and the keys
\* a Draw call has left bound.
HistoryStep(t) ==
    LET starting == th[t].pc = "idle"
        finishing == th[t].pc # "done" /\ th'[t].pc = "done"
        rec == th'[t]
        d == images[rec.img].uid
        roOk == /\ finishing
                /\ rec.op \in {"getROPixels", "readPixels"}
                /\ rec.ro = "ok"
    IN  /\ pre' = [bitmap |-> IF starting THEN bitmapCache ELSE pre.bitmap,
                   yuv |-> IF starting THEN yuvCache ELSE pre.yuv,
                   prev |-> IF starting THEN pre.last ELSE pre.prev,
                   last |-> IF finishing
                            THEN [op |-> rec.op, img |-> rec.img,
                                  failed |-> DecodeFailed(rec)]
                            ELSE pre.last]
        /\ series' =
              IF ~roOk THEN series
              ELSE IF series[d].n = 0
              THEN IF rec.hint = "Allow"
                   THEN [series EXCEPT ![d] = [n |-> 1, decodes |-> rec.gcalls,
                                               px |-> rec.bitmap.pixels]]
                   ELSE series
              ELSE [series EXCEPT ![d].n = Capped(@ + 1),
                                  ![d].decodes = Capped(@ + rec.gcalls)]
        /\ keyed' = IF /\ finishing /\ rec.op = "lock"
                       /\ rec.policy = "Draw" /\ rec.ret = "ok"
                    THEN keyed \cup {<<t, rec.img>>} ELSE keyed
        /\ UNCHANGED evicted

\* The history of the eviction of the k-th keyed proxy of context c.
HistoryEvict(c, k) ==
    LET hit == {p \in keyed : p[1] = c /\ images[p[2]].uid = texCache[c][k].key}
    IN  /\ keyed' = keyed \ hit
        /\ evicted' = evicted \cup hit
        /\ UNCHANGED <<pre, series>>

\* The history of the eviction of the bitmap with descriptor d: its series ends.
HistoryEvictBitmap(d) ==
    /\ series' = [series EXCEPT ![d] = NoSeries]
    /\ UNCHANGED <<pre, keyed, evicted>>

SeqThread == CHOOSE t \in Threads : \A u \in Threads : t <= u

\* One thread reading pixels and planes, call after call, with the resource
\* cache purging between its calls.
SeqNext ==
    \/ \E t \in {SeqThread}, i \in 1..MaxImages, h \in Hints :
          CallGetROPixels(t, i, h) /\ HistoryStep(t)
    \/ \E t \in {SeqThread}, i \in 1..MaxImages, h \in Hints :
          CallReadPixels(t, i, h) /\ HistoryStep(t)
    \/ \E t \in {SeqThread} : ROFind(t) /\ HistoryStep(t)
    \/ \E t \in {SeqThread} : ROAcquire(t) /\ HistoryStep(t)
    \/ \E t \in {SeqThread} : ROGetPixelsReturn(t) /\ HistoryStep(t)
    \/ \E t \in {SeqThread} : ROAdd(t) /\ HistoryStep(t)
    \/ \E t \in {SeqThread} : RONotify(t) /\ HistoryStep(t)
    \/ \E t \in {SeqThread}, i \in 1..MaxImages, b \in BOOLEAN :
          CallTextureProxyViewFromPlanes(t, i, b) /\ HistoryStep(t)
    \/ \E t \in {SeqThread} : PlanesAcquire(t) /\ HistoryStep(t)
    \/ \E t \in {SeqThread} : PlanesQueryReturn(t) /\ HistoryStep(t)
    \/ \E t \in {SeqThread} : PlanesGetReturn(t) /\ HistoryStep(t)
    \/ \E t \in {SeqThread} : PlanesReturn(t) /\ HistoryStep(t)
    \/ \E t \in {SeqThread} : PlanesUpload(t) /\ HistoryStep(t)
    \/ \E t \in {SeqThread} : PlanesColorSpaceAcquire(t) /\ HistoryStep(t)
    \/ \E t \in {SeqThread} : PlanesColorSpaceAndDraw(t) /\ HistoryStep(t)
    \/ \E t \in {SeqThread} : Return(t) /\ HistoryStep(t)
    \/ \E i \in 1..MaxImages :
          /\ i <= Len(images)
          /\ EvictBitmap(BitmapCacheDesc(i))
          /\ HistoryEvictBitmap(BitmapCacheDesc(i))
    \/ \E i \in 1..MaxImages :
          i <= Len(images) /\ EvictPlanes(images[i].uid) /\ UNCHANGED histVars

SpecSeq == SeqInit /\ [][SeqNext]_vars

\* One thread locking textures, call after call, with the proxy provider
\* dropping keyed proxies between its calls.
LockNext ==
    \/ \E t \in {SeqThread} : ROFind(t) /\ HistoryStep(t)
    \/ \E t \in {SeqThread} : ROAcquire(t) /\ HistoryStep(t)
    \/ \E t \in {SeqThread} : ROGetPixelsReturn(t) /\ HistoryStep(t)
    \/ \E t \in {SeqThread} : ROAdd(t) /\ HistoryStep(t)
    \/ \E t \in {SeqThread} : RONotify(t) /\ HistoryStep(t)
    \/ \E t \in {SeqThread} : PlanesAcquire(t) /\ HistoryStep(t)
    \/ \E t \in {SeqThread} : PlanesQueryReturn(t) /\ HistoryStep(t)
    \/ \E t \in {SeqThread} : PlanesGetReturn(t) /\ HistoryStep(t)
    \/ \E t \in {SeqThread} : PlanesReturn(t) /\ HistoryStep(t)
    \/ \E t \in {SeqThread} : PlanesUpload(t) /\ HistoryStep(t)
    \/ \E t \in {SeqThread} : PlanesColorSpaceAcquire(t) /\ HistoryStep(t)
    \/ \E t \in {SeqThread} : PlanesColorSpaceAndDraw(t) /\ HistoryStep(t)
    \/ \E t \in {SeqThread}, i \in 1..MaxImages, p \in Policies, m \in BOOLEAN :
          CallLockTextureProxyView(t, i, p, m) /\ HistoryStep(t)
    \/ \E t \in {SeqThread} : LockAcquire(t) /\ HistoryStep(t)
    \/ \E t \in {SeqThread} : LockGenerateTextureReturn(t) /\ HistoryStep(t)
    \/ \E t \in {SeqThread} : LockBind(t) /\ HistoryStep(t)
    \/ \E t \in {SeqThread} : LockInstallKey(t) /\ HistoryStep(t)
    \/ \E t \in {SeqThread} : LockListenerAdd(t) /\ HistoryStep(t)
    \/ \E t \in {SeqThread} : LockListenerLeave(t) /\ HistoryStep(t)
    \/ \E t \in {SeqThread} : LockLeaveGenerator(t) /\ HistoryStep(t)
    \/ \E t \in {SeqThread} : LockUpload(t) /\ HistoryStep(t)
    \/ \E t \in {SeqThread} : Return(t) /\ HistoryStep(t)
    \/ \E k \in 1..MaxImages : EvictProxy(SeqThread, k) /\ HistoryEvict(SeqThread, k)

SpecLock == SeqInit /\ [][LockNext]_vars

GenStates ==
    {[state |-> "null", ct |-> "RGBA8", cs |-> NoCS, made |-> FALSE,
      si |-> DefaultSizeInfo],
     [state |-> "empty", ct |-> "RGBA8", cs |-> NoCS, made |-> FALSE,
      si |-> DefaultSizeInfo]}
    \cup [state : {"ok"}, ct : ColorTypes, cs : ColorSpaces \cup {NoCS}, made : {FALSE},
          si : {DefaultSizeInfo}]

RecolorInit ==
    /\ gens \in [Gens -> GenStates]
    /\ images = <<>>
    /\ nextID = NumGens + 1
    /\ last = NoCall
    /\ disableYUV = FALSE
    /\ IdleInit

\* Images being made of generators and recolored.
RecolorNext ==
    \/ \E g \in Gens :
          MakeFromGenerator(g) /\ UNCHANGED <<accVars, disableYUV, histVars>>
    \/ \E i \in 1..MaxImages, ct \in ColorTypes, cs \in ColorSpaces \cup {NoCS} :
          /\ MakeColorTypeAndColorSpace(i, ct, cs)
          /\ UNCHANGED <<accVars, disableYUV, histVars>>

SpecRecolor == RecolorInit /\ [][RecolorNext]_vars

\* Images being made and recolored while one thread asks them for their
\* encoded data.
EncodedNext ==
    \/ \E g \in Gens :
          MakeFromGenerator(g) /\ UNCHANGED <<accVars, disableYUV, histVars>>
    \/ \E i \in 1..MaxImages, ct \in ColorTypes, cs \in ColorSpaces \cup {NoCS} :
          /\ MakeColorTypeAndColorSpace(i, ct, cs)
          /\ UNCHANGED <<accVars, disableYUV, histVars>>
    \/ \E i \in 1..MaxImages : CallRefEncoded(SeqThread, i) /\ UNCHANGED histVars
    \/ RefEncodedAcquire(SeqThread) /\ UNCHANGED histVars
    \/ RefEncodedReturn(SeqThread) /\ UNCHANGED histVars
    \/ Return(SeqThread) /\ UNCHANGED histVars

SpecEncoded == RecolorInit /\ [][EncodedNext]_vars

\* The plane sizes a generator may report: fWidthBytes is 0 exactly when the
\* height is, and the first plane is never empty.
PlaneDims == {[rb |-> 0, h |-> 0]} \cup [rb : 1..MaxRowBytes, h : 1..MaxHeight]
SizeInfos == {si \in [1..kMaxCount -> PlaneDims] : si[1].rb # 0}

PlanesInit ==
    /\ images = AccessorImages
    /\ \E si \in SizeInfos :
          gens = [g \in Gens |-> [state |-> "ok", ct |-> "RGBA8", cs |-> "sRGB",
                                  made |-> g = 1, si |-> si]]
    /\ nextID = NumGens + 2
    /\ last = [op |-> "recolor", src |-> OriginalImage, ct |-> "BGRA8", cs |-> "sRGB",
               res |-> RecoloredImage, fresh |-> TRUE, hit |-> FALSE]
    /\ disableYUV = FALSE
    /\ IdleInit

\* One thread fetching and uploading the planes of generators of any layout.
PlanesNext ==
    \/ \E i \in 1..MaxImages, b \in BOOLEAN :
          CallTextureProxyViewFromPlanes(SeqThread, i, b) /\ UNCHANGED histVars
    \/ PlanesAcquire(SeqThread) /\ UNCHANGED histVars
    \/ PlanesQueryReturn(SeqThread) /\ UNCHANGED histVars
    \/ PlanesGetReturn(SeqThread) /\ UNCHANGED histVars
    \/ PlanesReturn(SeqThread) /\ UNCHANGED histVars
    \/ PlanesUpload(SeqThread) /\ UNCHANGED histVars
    \/ PlanesColorSpaceAcquire(SeqThread) /\ UNCHANGED histVars
    \/ DropPlaneBitmap(SeqThread) /\ UNCHANGED histVars
    \/ PlanesColorSpaceAndDraw(SeqThread) /\ UNCHANGED histVars
    \/ Return(SeqThread) /\ UNCHANGED histVars
    \/ \E i \in 1..MaxImages :
          /\ i <= Len(images)
          /\ EvictPlanes(PlanesFindKey(i))
          /\ UNCHANGED histVars

SpecPlanes == PlanesInit /\ [][PlanesNext]_vars


(***************************************************************************)
(* The properties.                                                         *)
(***************************************************************************)
\* The positions inside a method of the generator, and those waiting for it.
InGenerator(t) ==
    th[t].pc \in {"ro_inGetPixels", "enc_inRefEncoded", "valid_inIsValid",
                  "reint_inGetPixels", "pl_inQuery", "pl_inGetPlanes", "tp_inGetInfo",
                  "lk_inGenerateTexture"}
AwaitsGenerator(t) ==
    th[t].pc \in {"ro_acq", "enc_acq", "valid_acq", "reint_acq", "pl_acq", "tp_cs",
                  "lk_s2"}

\* C1: whatever accessors the threads run on images that share a generator, at
\* most one thread is inside a method of the generator at any time, and that
\* thread holds the generator's mutex.
C1_SerialGeneratorAccess ==
    /\ Cardinality({t \in Threads : InGenerator(t)}) <= 1
    /\ \A t \in Threads : InGenerator(t) => mutex = t

\* One thread is inside the generator while another waits for the mutex.
C1_Witness ==
    \E t, u \in Threads : t # u /\ InGenerator(t) /\ AwaitsGenerator(u)

\* The stages a call may try, in order: 1 needs the Draw policy, 3 needs no
\* mipmaps and GPU YUV conversion.
EnabledStages(policy, mip, yuvOff) ==
    (IF policy = "Draw" THEN <<1>> ELSE <<>>) \o <<2>>
        \o (IF ~mip /\ ~yuvOff THEN <<3>> ELSE <<>>) \o <<4>>

StageName(s) ==
    CASE s = 1 -> "PreExisting" [] s = 2 -> "Native" [] s = 3 -> "YUV" [] OTHER -> "RGBA"

LockDone(t) == th[t].op = "lock" /\ th[t].pc = "done"

\* C2: lockTextureProxyView tries the enabled stages in the order 1, 2, 3, 4;
\* the first that succeeds decides the returned view and the histogram value,
\* no later stage is tried, and the view is empty only when every enabled stage
\* failed.  Stage 1 is enabled iff the policy is Draw, stage 3 iff mipmaps are
\* not wanted and GPU YUV conversion is not disabled.
C2_CascadeOrder ==
    \A t \in Threads :
        th[t].op = "lock" =>
            LET rec == th[t]
                en == EnabledStages(rec.policy, rec.mip, disableYUV)
            IN  /\ Len(rec.tried) <= Len(en)
                /\ rec.tried = SubSeq(en, 1, Len(rec.tried))
                /\ LockDone(t) /\ rec.won # 0 =>
                      /\ rec.tried = SelectSeq(en, LAMBDA s : s <= rec.won)
                      /\ rec.view.proxy # "null"
                      /\ rec.hist = <<StageName(rec.won)>>
                /\ LockDone(t) /\ rec.won = 0 =>
                      /\ rec.tried = en
                      /\ rec.view.proxy = "null"
                      /\ rec.hist = <<"Failure">>

\* A Draw call missed stage 1, was refused by stage 2 and won at stage 3.
C2_Witness ==
    \E t \in Threads : LockDone(t) /\ th[t].won = 3 /\ th[t].tried = <<1, 2, 3>>

\* C3: every call of lockTextureProxyView records exactly one histogram value,
\* one of PreExisting, Native, YUV, RGBA and Failure, on every path, and the
\* value is Failure exactly when the returned view is empty.
C3_HistogramOnce ==
    \A t \in Threads :
        th[t].op = "lock" =>
            IF th[t].pc = "done"
            THEN /\ Len(th[t].hist) = 1
                 /\ th[t].hist[1] \in {"PreExisting", "Native", "YUV", "RGBA", "Failure"}
                 /\ th[t].hist[1] = "Failure" <=> th[t].view.proxy = "null"
            ELSE Len(th[t].hist) <= 1

\* A call failed at the upload of stage 4, after the pixels were read.
C3_Witness ==
    \E t \in Threads :
        /\ LockDone(t)
        /\ th[t].hist = <<"Failure">>
        /\ th[t].ro = "ok"

\* The proxies of context c that carry the key of image i.
BoundProxies(c, i) ==
    {k \in 1..Len(texCache[c]) : texCache[c][k].key = images[i].uid}

\* A step that calls lockTextureProxyView(Draw) on image i from thread t.
DrawCall(t, i, mip) ==
    /\ th[t].pc = "idle"
    /\ th'[t].op = "lock"
    /\ th'[t].img = i
    /\ th'[t].policy = "Draw"
    /\ th'[t].mip = mip

\* C4: after lockTextureProxyView(Draw) succeeded through stage 2, 3 or 4 the
\* returned proxy is bound to the image's key in the context's cache; the next
\* Draw call without mipmaps on the same image and context, with no eviction
\* between, returns that proxy through stage 1 and never calls the generator;
\* after an eviction of the proxy the cascade runs again from stage 2.
C4_BoundAfterSuccess ==
    \A t \in Threads :
        LockDone(t) /\ th[t].policy = "Draw" /\ th[t].won \in 2..4 =>
            \E k \in BoundProxies(t, th[t].img) : texCache[t][k] = th[t].view

C4_NextCallHits ==
    \A t \in Threads, i \in 1..Len(images) :
        DrawCall(t, i, FALSE) /\ <<t, i>> \in keyed =>
            /\ th'[t].pc = "done"
            /\ th'[t].won = 1
            /\ th'[t].gcalls = 0
            /\ \E k \in BoundProxies(t, i) : texCache[t][k] = th'[t].view
            /\ texCache' = texCache

C4_EvictedRunsAgain ==
    \A t \in Threads, i \in 1..Len(images) :
        DrawCall(t, i, FALSE) /\ <<t, i>> \in evicted /\ <<t, i>> \notin keyed =>
            /\ th'[t].pc = "lk_s2"
            /\ th'[t].tried = <<1>>

C4_TextureCacheRoundTrip ==
    /\ []C4_BoundAfterSuccess
    /\ [][C4_NextCallHits /\ C4_EvictedRunsAgain]_vars

\* After an eviction the cascade ran again and bound a new proxy at stage 4,
\* and a call hit the bound proxy at stage 1.
C4_Witness ==
    \E t \in Threads :
        /\ LockDone(t)
        /\ th[t].policy = "Draw"
        /\ th[t].won = 4
        /\ <<t, th[t].img>> \in evicted
        /\ BoundProxies(t, th[t].img) # {}

\* A Draw call that wants mipmaps and finds a proxy without them under the key.
UpgradeCall(t, i) ==
    /\ DrawCall(t, i, TRUE)
    /\ \E k \in BoundProxies(t, i) : ~texCache[t][k].mipped

\* A finished call that found a proxy without mipmaps and wanted them.
UpgradeDone(t) == LockDone(t) /\ th[t].copy # "none"

\* The key of the image is bound to the returned view alone, which has mipmaps.
Upgraded(t) ==
    /\ th[t].view.mipped
    /\ Cardinality(BoundProxies(t, th[t].img)) = 1
    /\ \A k \in BoundProxies(t, th[t].img) : texCache[t][k] = th[t].view

\* C5 as stated: whenever lockTextureProxyView(Draw, mipmaps) finds a proxy
\* without mipmaps under the key, the returned view has mipmaps, the key is
\* bound to the new proxy and no longer to the old one.
C5_AlwaysUpgraded ==
    \A t \in Threads : UpgradeDone(t) => Upgraded(t)

\* C5: whenever lockTextureProxyView(Draw, mipmaps) finds a proxy without
\* mipmaps under the key and the copy of the base level into a mipmapped proxy
\* succeeds, the returned view has mipmaps and the key is bound to the new
\* proxy and no longer to the old one; when the copy fails the proxy that was
\* found is returned and stays bound; the key is never bound to two proxies.
C5_OneProxyPerKey ==
    \A c \in Threads, i \in 1..Len(images) : Cardinality(BoundProxies(c, i)) <= 1

C5_UpgradeResult ==
    \A t \in Threads :
        /\ UpgradeDone(t) /\ th[t].copy = "ok" => Upgraded(t)
        /\ UpgradeDone(t) /\ th[t].copy # "ok" =>
              /\ ~th[t].view.mipped
              /\ \E k \in BoundProxies(t, th[t].img) : texCache[t][k] = th[t].view

C5_UpgradeStep ==
    \A t \in Threads, i \in 1..Len(images) :
        /\ UpgradeCall(t, i) =>
              /\ th'[t].won = 1
              /\ th'[t].copy \in {"ok", "fail"}
              /\ th'[t].copy = "ok" => th'[t].view.mipped
              /\ th'[t].copy = "fail" => th'[t].pc = "done" /\ texCache' = texCache
        /\ (DrawCall(t, i, TRUE) \/ DrawCall(t, i, FALSE)) /\ ~UpgradeCall(t, i) =>
              th'[t].copy = "none"

C5_MipmapUpgrade ==
    /\ [](C5_OneProxyPerKey /\ C5_UpgradeResult)
    /\ [][C5_UpgradeStep]_vars

\* A call replaced the proxy it found by a mipmapped copy.
C5_Witness ==
    \E t \in Threads :
        /\ LockDone(t)
        /\ th[t].copy = "ok"
        /\ th[t].view.mipped
        /\ \E k \in BoundProxies(t, th[t].img) : texCache[t][k] = th[t].view

\* A finished getROPixels, alone or inside onReadPixels.
RODone(t) == th[t].op \in {"getROPixels", "readPixels"} /\ th[t].pc = "done"

\* Whether a set of cache records holds the bitmap of image i.
HoldsBitmap(cache, i) == \E r \in cache : r.desc = images[i].uid

\* C6: getROPixels and onReadPixels with hint Disallow leave no entry in the
\* bitmap cache for the image that was not there before the call, whether they
\* succeed or fail; a successful getROPixels with hint Allow that missed the
\* cache leaves an entry for the image.
C6_DisallowNeverPopulates ==
    \A t \in Threads :
        RODone(t) =>
            /\ th[t].hint = "Disallow" /\ ~HoldsBitmap(pre.bitmap, th[t].img) =>
                  ~HoldsBitmap(bitmapCache, th[t].img)
            /\ th[t].hint = "Disallow" => bitmapCache = pre.bitmap
            /\ (/\ th[t].hint = "Allow"
                /\ th[t].ro = "ok"
                /\ ~HoldsBitmap(pre.bitmap, th[t].img))
               => HoldsBitmap(bitmapCache, th[t].img)

\* A call with hint Disallow decoded the pixels and left the cache empty.
C6_Witness ==
    \E t \in Threads :
        /\ RODone(t)
        /\ th[t].hint = "Disallow"
        /\ th[t].ret = "ok"
        /\ th[t].gcalls = 1
        /\ ~HoldsBitmap(bitmapCache, th[t].img)

\* C7: starting from an empty bitmap cache and with no eviction, a series of
\* successful getROPixels calls on an image whose first call has hint Allow
\* calls the generator's getPixels exactly once in total; every later call, with
\* either hint, returns the cached pixels of the first.
C7_DecodeAmortized ==
    /\ \A d \in DOMAIN series :
          series[d].n >= 1 =>
              /\ series[d].decodes = 1
              /\ \E r \in bitmapCache : r.desc = d /\ r.pixels = series[d].px
    /\ \A t \in Threads :
          RODone(t) /\ series[images[th[t].img].uid].n >= 2 =>
              /\ th[t].gcalls = 0
              /\ th[t].bitmap.owner = "cache"
              /\ th[t].bitmap.pixels = series[images[th[t].img].uid].px

\* A later call of a series, with hint Disallow, returned the cached pixels.
C7_Witness ==
    \E t \in Threads :
        /\ RODone(t)
        /\ th[t].hint = "Disallow"
        /\ series[images[th[t].img].uid].n >= 2
        /\ th[t].bitmap.owner = "cache"

\* The call that just ended repeats the one before it, which had failed.
Retried(t) ==
    /\ pre.prev.failed
    /\ pre.prev.op = th[t].op
    /\ pre.prev.img = th[t].img

\* C8: a getROPixels whose decode failed and a getPlanes whose generator failed
\* leave the bitmap cache and the planes cache as they were, with no entry for
\* the image; the next call of the same kind asks the generator again and
\* succeeds when the generator does.
C8_FailureLeavesCaches ==
    \A t \in Threads :
        /\ RODone(t) /\ th[t].ro = "fail" =>
              /\ bitmapCache = pre.bitmap
              /\ yuvCache = pre.yuv
              /\ ~HoldsBitmap(bitmapCache, th[t].img)
        /\ th[t].op = "fromPlanes" /\ th[t].pc = "done" /\ th[t].gp = "fail" =>
              /\ bitmapCache = pre.bitmap
              /\ yuvCache = pre.yuv
              /\ th[t].ret = "fail"
        /\ RODone(t) /\ Retried(t) =>
              /\ th[t].ro = "ok" => th[t].gcalls = 1
              /\ th[t].genOk = "ok" => th[t].ro = "ok"
              /\ th[t].genOk = "ok" /\ th[t].op = "getROPixels" => th[t].ret = "ok"
        /\ th[t].op = "fromPlanes" /\ th[t].pc = "done" /\ Retried(t) =>
              /\ th[t].gp # "hit"
              /\ th[t].gp = "miss" => th[t].gcalls = 2

\* A getROPixels that follows a failed one asked the generator again and got
\* the pixels.
C8_Witness ==
    \E t \in Threads :
        /\ RODone(t)
        /\ th[t].op = "getROPixels"
        /\ Retried(t)
        /\ th[t].ret = "ok"
        /\ th[t].gcalls = 1

\* The source image and the result of the last recoloring.
Recolored == last.op = "recolor" /\ last.res # NullImage
SrcImage == images[last.src]
ResImage == images[last.res]

\* C9 as stated: a successful recoloring to a (color type, color space) that
\* differs from the image's own, the color space absent included, returns an
\* image whose id differs from the image's.
C9_AlwaysNewIdentity ==
    (Recolored /\ <<last.ct, last.cs>> # <<SrcImage.ct, SrcImage.cs>>)
        => ResImage.uid # SrcImage.uid

\* C9: a successful recoloring to a (color type, color space) that differs from
\* the image's own returns an image whose id differs from the image's, unless
\* the color space is absent, the color type is the generator's own and the
\* image carries the generator's id: then the result carries that id too.
C9_IdentityUnderRecoloring ==
    (Recolored /\ <<last.ct, last.cs>> # <<SrcImage.ct, SrcImage.cs>>)
    => IF /\ last.cs = NoCS
          /\ last.ct = gens[SrcImage.gen].ct
          /\ SrcImage.uid = GenUniqueID(SrcImage.gen)
       THEN ResImage.uid = SrcImage.uid
       ELSE ResImage.uid # SrcImage.uid

\* A recoloring of a recoloring to the generator's color type with no color
\* space came back with the generator's id, which is not the source's.
C9_Witness ==
    /\ Recolored
    /\ last.cs = NoCS
    /\ last.ct = gens[SrcImage.gen].ct
    /\ SrcImage.uid # GenUniqueID(SrcImage.gen)
    /\ <<last.ct, last.cs>> # <<SrcImage.ct, SrcImage.cs>>
    /\ ResImage.uid # SrcImage.uid

\* C10: recoloring an image made of a generator to the generator's own color
\* type and color space returns the same image: the id is the image's and no
\* fresh id is allocated.
C10_OwnInfoIsIdentity ==
    (/\ Recolored
     /\ SrcImage.uid = GenUniqueID(SrcImage.gen)
     /\ last.ct = gens[SrcImage.gen].ct
     /\ last.cs = gens[SrcImage.gen].cs)
    => (ResImage.uid = SrcImage.uid /\ ~last.fresh)

\* A step that recolors again the image the step before recolored, to the
\* same target.
RepeatedRecolor ==
    /\ last.op = "recolor"
    /\ last.res # NullImage
    /\ last'.op = "recolor"
    /\ last'.src = last.src
    /\ last'.ct = last.ct
    /\ last'.cs = last.cs

\* C11: two recolorings of an image to the same target with no other call
\* between them return the same handle and allocate one fresh id between them,
\* the second none; the memo of an image holds the result of its most recent
\* recoloring that created an image.
C11_MemoIsLastResult ==
    Recolored => images[last.src].memo = last.res

C11_RepeatReturnsMemo ==
    RepeatedRecolor =>
        /\ last'.res = last.res
        /\ ~last'.fresh
        /\ last.fresh \/ last.hit
        /\ images' = images

C11_OneSlotMemo ==
    /\ []C11_MemoIsLastResult
    /\ [][C11_RepeatReturnsMemo]_vars

\* A finished onRefEncoded.
EncodedDone(t) == th[t].op = "refEncoded" /\ th[t].pc = "done"

\* C12 as stated: onRefEncoded on an image that a recoloring returned, whatever
\* the target, returns nothing and never asks the generator.
C12_RecoloredNeverEncoded ==
    \A t \in Threads :
        (EncodedDone(t) /\ Recolored /\ th[t].img = last.res) =>
            (th[t].ret = "fail" /\ th[t].gcalls = 0)

\* C12: onRefEncoded asks the generator, and so returns data, only for an image
\* that carries the generator's id; on an image that a recoloring returned it
\* returns nothing and never asks the generator, unless that image carries the
\* generator's id, as the result for the generator's color type with no color
\* space does.
C12_EncodedAliasing ==
    \A t \in Threads :
        th[t].op = "refEncoded" =>
            LET img == images[th[t].img]
            IN  /\ (th[t].gcalls > 0 \/ th[t].ret = "ok") =>
                      img.uid = GenUniqueID(img.gen)
                /\ (/\ EncodedDone(t)
                    /\ Recolored
                    /\ th[t].img = last.res
                    /\ img.uid # GenUniqueID(img.gen)) =>
                      (th[t].ret = "fail" /\ th[t].gcalls = 0)
                /\ (Recolored /\ th[t].img = last.res /\ last.fresh) =>
                      img.uid # GenUniqueID(img.gen)

\* A recoloring returned an image with a fresh id, and onRefEncoded on it
\* returned nothing without asking the generator.
C12_Witness ==
    \E t \in Threads :
        /\ EncodedDone(t)
        /\ Recolored
        /\ last.fresh
        /\ th[t].img = last.res
        /\ th[t].ret = "fail"
        /\ th[t].gcalls = 0

\* C13: two live images carry the same id if and only if they share the
\* generator and have the same color type and color space.
C13_IdentityInvariant ==
    \A i, j \in 1..Len(images) :
        images[i].uid = images[j].uid
            <=> (/\ images[i].gen = images[j].gen
                 /\ images[i].ct = images[j].ct
                 /\ images[i].cs = images[j].cs)

\* The bytes of the planes before plane i.
RECURSIVE BytesBefore(_, _)
BytesBefore(si, i) ==
    IF i = 1 THEN 0 ELSE BytesBefore(si, i - 1) + si[i - 1].rb * si[i - 1].h

\* getPlanes has returned planes to textureProxyViewFromPlanes.
HasPlanes(t) == th[t].pc = "tp_upload"

\* C14: for every size info whose first plane is not empty, on a cache hit and
\* on a miss alike, getPlanes returns for each non-empty plane the buffer plus
\* the bytes of all planes before it and null for each empty plane, also when
\* an empty plane precedes a non-empty one; the buffer of a miss has exactly
\* the bytes of all planes.
C14_PlaneLayout ==
    \A t \in Threads :
        HasPlanes(t) =>
            LET si == GenSizeInfo(images[th[t].img].gen)
            IN  /\ \A i \in 1..kMaxCount :
                      th[t].planes[i] =
                          IF si[i].rb = 0 THEN NullPtr
                          ELSE [base |-> "data", off |-> BytesBefore(si, i)]
                /\ th[t].data.size = BytesBefore(si, kMaxCount)
                                        + si[kMaxCount].rb * si[kMaxCount].h

\* C15: whenever getROPixels returns true, through a cache hit, a decode into
\* the cache or a private decode, the output bitmap is immutable and has the
\* image's pixels behind it; whenever it returns false the output bitmap is not
\* a finished bitmap of the generator's output and the cache got nothing.
C15_ResultImmutable ==
    \A t \in Threads :
        RODone(t) =>
            LET img == images[th[t].img]
            IN  /\ th[t].ro \in {"ok", "fail"}
                /\ th[t].ro = "ok" =>
                      /\ th[t].bitmap.immutable
                      /\ th[t].bitmap.pixels = GenPixels(img.ct, img.cs)
                      /\ th[t].bitmap.owner \in {"cache", "private"}
                /\ th[t].ro = "fail" =>
                      /\ ~th[t].bitmap.immutable
                      /\ th[t].bitmap.pixels # GenPixels(img.ct, img.cs)
                      /\ bitmapCache = pre.bitmap

\* A private decode failed after the caller's bitmap was allocated.
C15_Witness ==
    \E t \in Threads :
        /\ RODone(t)
        /\ th[t].ro = "fail"
        /\ th[t].bitmap = UnfilledBitmap

\* The last call ran a Validator: MakeFromGenerator, or a recoloring that missed
\* the memo.
Validated == last.op = "fromGenerator" \/ (last.op = "recolor" /\ ~last.hit)

\* The generator the last call validated.
ValidatedGen == IF last.op = "fromGenerator" THEN last.src ELSE images[last.src].gen

\* C16: a Validator is invalid iff the generator is null or its info is empty;
\* otherwise its info is the generator's with the color type overlaid when it
\* differs and the color space overlaid when present (an absent color space
\* leaves the generator's), and its id is the generator's exactly when no color
\* type other than the generator's and no color space was asked for; in every
\* other case the id is fresh, different from every id allocated before.
C16_ValidatorRule ==
    Validated =>
        LET g == gens[ValidatedGen]
            same == (last.ct = NoCT \/ last.ct = g.ct) /\ last.cs = NoCS
        IN  /\ last.res = NullImage <=> g.state \in {"null", "empty"}
            /\ last.res # NullImage =>
                  /\ ResImage.gen = ValidatedGen
                  /\ ResImage.ct = IF last.ct # NoCT THEN last.ct ELSE g.ct
                  /\ ResImage.cs = IF last.cs # NoCS THEN last.cs ELSE g.cs
                  /\ ResImage.uid = GenUniqueID(ValidatedGen) <=> same
                  /\ last.fresh <=> ~same
                  /\ last.fresh =>
                        /\ \A j \in 1..Len(images) :
                              j # last.res => images[j].uid # ResImage.uid
                        /\ \A h \in Gens : GenUniqueID(h) # ResImage.uid

\* A recoloring to another color type with no color space kept the generator's
\* color space and took a fresh id.
C16_Witness ==
    /\ last.op = "recolor"
    /\ ~last.hit
    /\ last.res # NullImage
    /\ last.cs = NoCS
    /\ last.ct # gens[ValidatedGen].ct
    /\ gens[ValidatedGen].cs # NoCS
    /\ ResImage.cs = gens[ValidatedGen].cs
    /\ last.fresh

\* A thread inside lockTextureProxyView with one of the uncached policies.
UncachedLock(rec) == rec.op = "lock" /\ rec.policy \in {"Budgeted", "Unbudgeted"}

\* C17: a lockTextureProxyView call with policy NewUncachedBudgeted or
\* NewUncachedUnbudgeted never tries the texture cache, binds no key, appends
\* no listener and reads the pixels of stage 4 with hint Disallow, so that no
\* step of the call changes the texture cache, the listeners or the bitmap
\* cache, and the view it returns carries no key.
C17_UncachedState ==
    \A t \in Threads :
        UncachedLock(th[t]) =>
            /\ \A k \in 1..Len(th[t].tried) : th[t].tried[k] # 1
            /\ th[t].won # 1
            /\ th[t].view.key = NoKey
            /\ th[t].pc \in {"ro_find", "ro_acq", "ro_inGetPixels", "ro_add",
                             "ro_notify"} =>
                  th[t].hint = "Disallow"
            /\ th[t].copy = "none"

C17_UncachedStep ==
    \A t \in Threads :
        UncachedLock(th'[t]) /\ th'[t] # th[t] =>
            /\ texCache' = texCache
            /\ listeners' = listeners
            /\ bitmapCache' = bitmapCache

C17_UncachedPolicies == []C17_UncachedState /\ [][C17_UncachedStep]_vars

\* An uncached call decoded the pixels and uploaded them although the key of
\* the image was bound to a proxy, and left the bitmap cache without the image.
C17_Witness ==
    \E t \in Threads :
        /\ LockDone(t)
        /\ UncachedLock(th[t])
        /\ th[t].won = 4
        /\ th[t].gcalls > 0
        /\ th[t].view.proxy = "tex"
        /\ BoundProxies(t, th[t].img) # {}
        /\ ~HoldsBitmap(bitmapCache, th[t].img)

\* The listeners of image i for key k and context c.
ListenersFor(ls, i, k, c) == {n \in 1..Len(ls[i]) : ls[i][n] = <<k, c>>}

\* Thread t, inside installKey with a valid key, registers its listener in
\* this step, without the mutex of the listener set or under it.
InstallsKey(t) ==
    /\ \/ th[t].pc = "lk_install" /\ th'[t].pc = "lk_bind"
       \/ th[t].pc = "lk_inListAdd" /\ th'[t].pc = "lk_listAdded"
    /\ MakeKey(th'[t].img, th'[t].policy) # NoKey

\* C18: every key that lockTextureProxyView has bound to a proxy of context c
\* has a listener for the key and c among the listeners of an image with that
\* id, and the listener was there before the binding was made; installKey
\* appends one listener per invocation, also on a mipmap upgrade, and nothing
\* else appends one; a stage-1 hit that returns the proxy it found appends no
\* listener and changes no binding.
C18_BoundKeysHaveListeners ==
    \A c \in Threads : \A k \in 1..Len(texCache[c]) :
        texCache[c][k].key # NoKey =>
            \E i \in 1..Len(images) :
                /\ images[i].uid = texCache[c][k].key
                /\ ListenersFor(listeners, i, texCache[c][k].key, c) # {}

C18_ListenerBeforeBinding ==
    \A c \in Threads, i \in 1..Len(images) :
        (LET after == {k \in 1..Len(texCache'[c]) : texCache'[c][k].key = images[i].uid}
         IN  Cardinality(BoundProxies(c, i)) < Cardinality(after)) =>
            /\ th[c].pc = "lk_bind"
            /\ images[th[c].img].uid = images[i].uid
            /\ ListenersFor(listeners, th[c].img, images[i].uid, c) # {}
            /\ listeners' = listeners

C18_OneListenerPerInstall ==
    /\ \A t \in Threads :
          InstallsKey(t) =>
              listeners' = [listeners EXCEPT ![th'[t].img] =
                               Append(@, <<MakeKey(th'[t].img, th'[t].policy), t>>)]
    /\ listeners' # listeners => \E t \in Threads : InstallsKey(t)

C18_PlainHitStep ==
    \A t \in Threads :
        (/\ th[t].pc = "idle"
         /\ th'[t].op = "lock"
         /\ th'[t].won = 1
         /\ th'[t].copy = "none") =>
            /\ th'[t].pc = "done"
            /\ listeners' = listeners
            /\ texCache' = texCache
            /\ \E k \in BoundProxies(t, th'[t].img) : texCache[t][k] = th'[t].view

C18_KeyListenerPairing ==
    /\ []C18_BoundKeysHaveListeners
    /\ [][C18_ListenerBeforeBinding /\ C18_OneListenerPerInstall /\ C18_PlainHitStep]_vars

\* A mipmap upgrade has appended its listener, the second for the key, and has
\* not yet bound the key to the copy.
C18_Witness ==
    \E t \in Threads :
        /\ th[t].pc = "lk_bind"
        /\ th[t].copy = "ok"
        /\ BoundProxies(t, th[t].img) = {}
        /\ Cardinality(ListenersFor(listeners, th[t].img, images[th[t].img].uid, t)) = 2

\* C19: when stage 1 finds a proxy without mipmaps, mipmaps are wanted and the
\* copy into a mipmapped proxy fails, lockTextureProxyView returns the view it
\* found, leaves the key bound to that proxy, appends no listener, calls no
\* method of the generator and tries none of the stages 2 to 4.
C19_CopyFailureStep ==
    \A t \in Threads :
        (/\ th[t].pc = "idle"
         /\ th'[t].op = "lock"
         /\ th'[t].copy = "fail") =>
            /\ th'[t].pc = "done"
            /\ th'[t].ret = "ok"
            /\ th'[t].mip
            /\ ~th'[t].view.mipped
            /\ \E k \in BoundProxies(t, th'[t].img) : texCache[t][k] = th'[t].view
            /\ texCache' = texCache
            /\ listeners' = listeners
            /\ mutex' = mutex
            /\ bitmapCache' = bitmapCache
            /\ yuvCache' = yuvCache

C19_CopyFailureState ==
    \A t \in Threads :
        th[t].op = "lock" /\ th[t].copy = "fail" =>
            /\ th[t].pc = "done"
            /\ th[t].gcalls = 0
            /\ th[t].tried = <<1>>
            /\ th[t].won = 1
            /\ th[t].hist = <<"PreExisting">>

C19_CopyFailureBestEffort == []C19_CopyFailureState /\ [][C19_CopyFailureStep]_vars

\* A call that wanted mipmaps returned the bound proxy without them.
C19_Witness ==
    \E t \in Threads :
        /\ LockDone(t)
        /\ th[t].copy = "fail"
        /\ th[t].mip
        /\ th[t].view.proxy = "tex"
        /\ ~th[t].view.mipped
        /\ th[t].view.key = images[th[t].img].uid
        /\ Cardinality(BoundProxies(t, th[t].img)) = 1

\* A finished getROPixels call with hint Allow that ran the generator.
DecodedForCache(t) ==
    /\ th[t].op = "getROPixels"
    /\ th[t].pc = "done"
    /\ th[t].hint = "Allow"
    /\ th[t].gcalls = 1

\* The records of the bitmap cache for the id of image i.
CacheEntries(i) == {r \in bitmapCache : r.desc = BitmapCacheDesc(i)}

\* C20: when two threads call getROPixels with hint Allow on images of one id
\* and both miss the bitmap cache, both may run getPixels; the two runs never
\* overlap; each call whose decode succeeds returns true with an immutable
\* bitmap of the generator's pixels, so both bitmaps have the same content;
\* and the cache holds one record for the id, never more.
C20_ConcurrentMisses ==
    /\ \A t, u \in Threads :
          t # u => ~(th[t].pc = "ro_inGetPixels" /\ th[u].pc = "ro_inGetPixels")
    /\ \A i \in 1..Len(images) : Cardinality(CacheEntries(i)) <= 1
    /\ \A t \in Threads :
          DecodedForCache(t) /\ th[t].genOk = "ok" =>
              /\ th[t].ret = "ok"
              /\ th[t].bitmap.immutable
              /\ th[t].bitmap.pixels =
                    GenPixels(images[th[t].img].ct, images[th[t].img].cs)
              /\ Cardinality(CacheEntries(th[t].img)) = 1
              /\ \A r \in CacheEntries(th[t].img) : r.pixels = th[t].bitmap.pixels
    /\ \A t, u \in Threads :
          (/\ DecodedForCache(t) /\ th[t].ret = "ok"
           /\ DecodedForCache(u) /\ th[u].ret = "ok"
           /\ BitmapCacheDesc(th[t].img) = BitmapCacheDesc(th[u].img)) =>
              th[t].bitmap.pixels = th[u].bitmap.pixels

\* Two threads have both decoded the pixels of one image and both returned true.
C20_Witness ==
    \E t, u \in Threads :
        /\ t # u
        /\ DecodedForCache(t) /\ th[t].ret = "ok" /\ th[t].bitmap.immutable
        /\ DecodedForCache(u) /\ th[u].ret = "ok" /\ th[u].bitmap.immutable
        /\ BitmapCacheDesc(th[t].img) = BitmapCacheDesc(th[u].img)
        /\ th[t].bitmap.pixels = th[u].bitmap.pixels
        /\ Cardinality(CacheEntries(th[t].img)) = 1

\* Thread t runs the lookup of getPlanes in this step.
PlanesLookup(t) == th[t].pc = "pl_acq" /\ th'[t].pc # "pl_acq"

\* The planes cache holds what a getPlanes on image i has added.
PlanesAdded(i) == YUVCacheHas(PlanesAddKey(i))

\* C21: for every image, also a recoloring whose id differs from the
\* generator's, once getPlanes has added the planes to the cache and they have
\* not been evicted, the next getPlanes on the image finds them and calls
\* neither queryYUVA8 nor getYUVA8Planes.
C21_PlanesFoundStep ==
    \A t \in Threads :
        PlanesLookup(t) /\ PlanesAdded(th[t].img) =>
            /\ th'[t].gp = "hit"
            /\ th'[t].gcalls = 0
            /\ th'[t].pc = "pl_ret"

C21_PlanesKeyConsistency == [][C21_PlanesFoundStep]_vars

\* A thread with a buffer of planes, in getPlanes or after it.
HoldsData(t) == th[t].data.owner # "none"

\* The call of thread t has returned from the planar path.
PlanesReturned(t) == th[t].pc \in {"done", "ro_find"} /\ th[t].gp # "none"

\* C22: on every path through getPlanes and textureProxyViewFromPlanes (success,
\* getYUVA8Planes failing, a plane upload failing after earlier planes were
\* wrapped, the render target failing) every reference taken on the buffer is
\* given back once: the count is never negative and is the number of its
\* holders, the caller's pointer, the plane bitmaps alive and the planes cache;
\* it is positive while a plane bitmap is alive; and when the call has
\* returned and no plane bitmap is left only the cache's reference remains.
C22_ReferenceBalance ==
    \A t \in Threads :
        LET d == th[t].data
        IN  /\ d.rc >= 0
            /\ d.rc = d.sp + d.bm + d.cache
            /\ d.bm > 0 => d.rc > 0
            /\ d.bm >= 0 /\ d.sp \in {0, 1} /\ d.cache \in {0, 1}
            /\ th[t].pc \in {"done", "ro_find", "ro_acq", "ro_inGetPixels",
                             "ro_add", "ro_notify", "lk_upload", "lk_install", "lk_inListAdd",
                             "lk_listAdded", "lk_bind",
                             "lk_ret"} => d.sp = 0
            /\ PlanesReturned(t) /\ d.bm = 0 => d.rc = d.cache
            /\ th[t].ret = "fail" \/ th[t].pc = "ro_find" => d.bm = 0
            /\ th[t].gp = "fail" => d.rc = 0

\* An upload failed after an earlier plane was wrapped; the call returned the
\* empty view and the cache holds the only reference.
C22_Witness ==
    \E t \in Threads :
        /\ th[t].op = "fromPlanes"
        /\ th[t].pc = "done"
        /\ th[t].ret = "fail"
        /\ th[t].gp = "miss"
        /\ th[t].plane > 1
        /\ th[t].plane <= kMaxCount
        /\ th[t].data.cache = 1
        /\ th[t].data.rc = 1

\* The mutexes: the generator's, and each image's recolor mutex and the mutex
\* of its listener set.
GeneratorMutex == <<"generator", 0>>
Mutexes ==
    {GeneratorMutex} \cup {<<"recolor", i>> : i \in 1..MaxImages}
        \cup {<<"listeners", i>> : i \in 1..MaxImages}

Holder(m) ==
    IF m[1] = "generator" THEN mutex
    ELSE IF m[1] = "recolor" THEN recolorMutex[m[2]]
    ELSE listMutex[m[2]]

Held(t) == {m \in Mutexes : Holder(m) = t}

\* The mutexes thread t is about to take where it stands.
Wants(t) ==
    IF AwaitsGenerator(t) THEN {GeneratorMutex}
    ELSE IF th[t].pc = "mk_acq" THEN {<<"recolor", th[t].img>>}
    ELSE IF th[t].pc = "lk_install" /\ MakeKey(th[t].img, th[t].policy) # NoKey
    THEN {<<"listeners", th[t].img>>}
    ELSE {}

\* Thread t stands before a mutex that another thread holds.
Blocked(t) == \E m \in Wants(t) : Holder(m) # NoThread

\* Thread t is between calls, or has returned from its call.
Outside(t) == th[t].pc \in {"idle", "done"}

\* The order in which the mutexes may be nested.
Rank(m) ==
    IF m[1] = "generator" THEN 1 ELSE IF m[1] = "recolor" THEN 2 ELSE 3

\* C23: no thread tries to take a mutex it holds, and none is held between
\* calls; a thread takes a mutex only of a higher rank than those it holds,
\* so the acquisition order has no cycle; no set of threads waits for each
\* other; every mutex that is taken is released; every call returns or stands
\* before a mutex that another thread holds; and when the mutexes let every
\* waiting thread in at some time, every call returns.
C23_NoReentry ==
    \A t \in Threads :
        /\ Wants(t) \cap Held(t) = {}
        /\ Outside(t) => Held(t) = {}

C23_AcquisitionOrder ==
    \A t \in Threads : \A m \in Wants(t) : \A h \in Held(t) : Rank(h) < Rank(m)

C23_NoWaitCycle ==
    \A S \in SUBSET Threads :
        S # {} => \E t \in S : \A m \in Wants(t) : Holder(m) \notin S

\* A call is left only by its return and a mutex only by its release, so a
\* thread that is outside a call, or without a mutex, again and again has
\* returned from every call, or released every mutex, it has taken.
C23_MutexesReleased ==
    \A t \in Threads : []<>(Held(t) = {})

C23_CallsProgress ==
    \A t \in Threads : []<>(Outside(t) \/ Blocked(t))

C23_EveryCallReturns ==
    \A t \in Threads : []<>Outside(t)

\* Mutexes that let every waiting thread in at some time.
C23_FairMutexes == \A t \in Threads : SF_vars(ThreadStep(t))

C23_DeadlockFreedom ==
    /\ [](C23_NoReentry /\ C23_AcquisitionOrder /\ C23_NoWaitCycle)
    /\ C23_MutexesReleased
    /\ C23_CallsProgress
    /\ (C23_FairMutexes => C23_EveryCallReturns)

\* C23 as stated: with threads that are scheduled fairly and generator calls
\* that return, every accessor call returns.
C23_ReturnsUnderFairScheduling ==
    /\ [](C23_NoReentry /\ C23_AcquisitionOrder)
    /\ C23_EveryCallReturns

\* A thread waits for the generator's mutex while the call that holds it
\* registers its listener inside stage 2, under the mutex of the listener set.
C23_Witness ==
    \E t, u \in Threads :
        /\ t # u
        /\ AwaitsGenerator(t)
        /\ mutex = u
        /\ th[u].pc = "lk_inListAdd"
        /\ listMutex[th[u].img] = u
====
